---------------------------- MODULE Spec2Model ----------------------------
(***************************************************************************)
(* GeodesicMapper (src/src/main.js): the projection transition and         *)
(* interaction engine, as a state machine.                                 *)
(*                                                                         *)
(* One action per handler of the program: the dataset-fetch continuation,  *)
(* the resize listener, the toggle click, the three pointer listeners, the *)
(* d3-zoom wheel gesture and the two requestAnimationFrame callbacks.      *)
(* All handlers run on one event queue, so each is one atomic step.        *)
(*                                                                         *)
(* Numbers.  JavaScript numbers are modelled in fixed point:               *)
(*   blend factor   numerator over BlendDen (0 .. BlendDen)                *)
(*   angles         AngleDen units per degree                              *)
(*   lengths        PixDen units per pixel                                 *)
(*   zoom factor    ZoomDen units per 1.0                                  *)
(*   time           milliseconds, in multiples of TimeStep                 *)
(* The flat-mode scale min(w,h)/(2 pi) is kept as its circumference        *)
(* min(w,h) (the scale times 2 pi), which is what the code multiplies back *)
(* out in every hit test and wrap; where the scale itself is needed 2 pi   *)
(* is TwoPiNum/TwoPiDen.                                                   *)
(*                                                                         *)
(* Time.  The program reads its clock (performance.now, the timestamp of   *)
(* a frame) only to take differences with a timestamp it stored earlier:   *)
(* timestamp - transitionStartTime and currentTime - lastDragTime.  The    *)
(* model keeps, for each stored timestamp, the time that has passed since  *)
(* it was stored; every handler that reads the clock takes as input the    *)
(* time that has passed since the previous reading and adds it to both.    *)
(***************************************************************************)
EXTENDS Integers, Sequences, FiniteSets, TLC

(* ------------------------------------------------------------------ *)
(* Bounds of the model                                                 *)
(* ------------------------------------------------------------------ *)

\* Pointer samples (pointer-move while dragging) in one behaviour.
MaxSamples == 1

(* ------------------------------------------------------------------ *)
(* Program constants                                                   *)
(* ------------------------------------------------------------------ *)

ORTHOGRAPHIC == 0
MERCATOR == 1
TRANSITION_DURATION == 1500

\* FRICTION = 0.95 and MIN_VELOCITY = 0.01, and the drag sensitivity 0.25,
\* as fractions.
FRICTION_NUM == 95
FRICTION_DEN == 100
SENSITIVITY_NUM == 25
SENSITIVITY_DEN == 100
FRAME_REFERENCE_MS == 16

\* d3.zoom().scaleExtent([0.8, 10]), in ZoomDen units.
ZoomDen == 100
SCALE_EXTENT_MIN == 80
SCALE_EXTENT_MAX == 1000
zoomIdentity == ZoomDen

AngleDen == 100000
PixDen == 100
MIN_VELOCITY == AngleDen \div 100

\* 2 pi = 710/113 (355/113 for pi, exact to 3e-7).
TwoPiNum == 710
TwoPiDen == 113

\* Mercator y of the latitude bounds, ln(tan(pi/4 + lat/2)) / (2 pi), per
\* MercDen of the map circumference: +86 deg -> 0.533923, -83 deg -> -0.444739.
MercDen == 10000
MERCATOR_Y_MAX == 5339
MERCATOR_Y_MIN == 0 - 4447

\* Granularity of time: every timestamp is a multiple of TimeStep ms.
EaseSteps == 4
TimeStep == TRANSITION_DURATION \div EaseSteps
BlendDen == 2 * EaseSteps * EaseSteps * EaseSteps

NULL == 0 - 1

(* ------------------------------------------------------------------ *)
(* Arithmetic helpers                                                  *)
(* ------------------------------------------------------------------ *)

Min(a, b) == IF a <= b THEN a ELSE b
Max(a, b) == IF a >= b THEN a ELSE b
Abs(a) == IF a >= 0 THEN a ELSE 0 - a

\* floor(a * b / c) for b >= 0, c > 0, without forming a * b.
MulDiv(a, b, c) == (a \div c) * b + ((a % c) * b) \div c

\* JavaScript's % : the sign of the result is the sign of the dividend.
JsRem(a, b) == IF a >= 0 THEN a % b ELSE 0 - ((0 - a) % b)

\* a / b rounded towards zero (the rounding is symmetric in sign, as a
\* floating-point quotient is), b > 0.
SDiv(a, b) == IF a >= 0 THEN a \div b ELSE 0 - ((0 - a) \div b)

\* a * b / c rounded towards zero, b >= 0, c > 0.
SMulDiv(a, b, c) == IF a >= 0 THEN MulDiv(a, b, c) ELSE 0 - MulDiv(0 - a, b, c)

\* Non-finite JavaScript numbers.  Every finite value of the model is far
\* below PosInf in magnitude.
PosInf == 1000000000
NegInf == 0 - PosInf
NaN == PosInf + 1
IsFinite(a) == a > NegInf /\ a < PosInf
IsNaN(a) == a = NaN

\* a + b, a * (n/d) and Math.abs(a) < m on numbers that may be non-finite.
JsAdd(a, b) ==
    IF IsNaN(a) \/ IsNaN(b) THEN NaN
    ELSE IF IsFinite(a) /\ IsFinite(b) THEN a + b
    ELSE IF IsFinite(a) THEN b
    ELSE IF IsFinite(b) \/ a = b THEN a
    ELSE NaN
\* Fault variant of JsScale: the factor is applied twice.
JsScaleTwice(a, n, d) ==
    IF ~IsFinite(a) THEN (IF n = 0 THEN NaN ELSE a)
    ELSE SMulDiv(SMulDiv(a, n, d), n, d)
JsScale(a, n, d) ==
    IF ~IsFinite(a) THEN (IF n = 0 THEN NaN ELSE a) ELSE SMulDiv(a, n, d)
JsAbsLess(a, m) == IsFinite(a) /\ Abs(a) < m
JsAbsGreater(a, m) == ~IsNaN(a) /\ (~IsFinite(a) \/ Abs(a) > m)

\* a / dt * 16 for a finite a and dt >= 0: division by zero gives an
\* infinity of a's sign, 0/0 gives NaN.
JsRate(a, dt) ==
    IF dt > 0 THEN SDiv(a * FRAME_REFERENCE_MS, dt)
    ELSE IF a > 0 THEN PosInf
    ELSE IF a < 0 THEN NegInf
    ELSE NaN

\* ((a % w) + w) % w
JsWrap(a, w) == IF IsFinite(a) THEN a % w ELSE NaN

(* ------------------------------------------------------------------ *)
(* Inputs                                                              *)
(* ------------------------------------------------------------------ *)

\* Client sizes the canvas wrapper takes.
WrapperSizes == { <<800, 400>> }

\* The canvas width/height attributes before the first resize: absent
\* (read as 0) or already set in the page.
InitialCanvasSizes == { <<0, 0>>, <<800, 400>> }

\* Pointer positions (canvas-local = client coordinates, the canvas being
\* at the page origin): two neighbouring points that lie on the globe and
\* on the flat map at the size of WrapperSizes, and the top-left corner,
\* which lies outside both.
PointerPoints == { <<300, 150>>, <<301, 151>>, <<0, 0>> }

\* Time between a frame and the previous clock reading, in TimeSteps.
TickDelays == { 0, 1, 2 }

\* Time between a pointer sample and the previous one (or the pointer-down),
\* in TimeSteps; after a longer pause the drag can only end.
SampleGaps == { 0, 2 }
MaxGap == CHOOSE g \in SampleGaps : \A h \in SampleGaps : h <= g

\* Wheel deltas, as the exponent of 2 that d3-zoom scales by.
WheelSteps == { 0 - 4 }

(* ------------------------------------------------------------------ *)
(* State                                                               *)
(* ------------------------------------------------------------------ *)

VARIABLES
    fetchState,                 \* d3.json promise: "pending", "resolved", "failed"
    listenersInstalled,         \* toggle, pointer and wheel listeners added
    wrapperSize,                \* clientWidth/clientHeight of the wrapper
    canvasSize,                 \* width/height attributes of the canvas
    globeProjection,
    worldCountries,
    orthographicScale,
    mercatorScale,              \* as the circumference, scale * 2 pi
    mercatorTranslation,
    mercatorViewportClipping,
    zoom,                       \* the d3.zoom behaviour exists
    zoomState,                  \* d3-zoom's own transform on the canvas (__zoom.k)
    currentZoomTransform,
    initialCanvasSize,
    projectionTransitionId,
    isProjectionTransitioning,
    toggleDisabled,             \* projectionToggleButton.disabled
    currentProjectionState,
    isDragging,
    dragStart,
    currentRotation,
    mercatorOffset,
    rotationVelocity,
    mercatorVelocity,
    sinceLastDragTime,          \* performance.now() - lastDragTime
    inertiaAnimationId,
    transitionCallbacks,        \* requestAnimationFrame queue: transitionFrame closures,
                                \* each with the blend factor its last run drew
    inertiaCallbacks,           \* requestAnimationFrame queue: applyInertia ids
    rendered,                   \* a frame has been drawn
    nSamples,                   \* pointer samples taken so far
    domElements,                \* the page's elements among those the module looks up
    startup,                    \* how the module's top-level code ended
    callLog,                    \* history of the calls made on the projection
                                \* object from outside the renderer
    inertiaRun                  \* history of the inertia loop in progress: the
                                \* velocity it started with, the calls of
                                \* applyInertia that moved the rotation, and by
                                \* how much in all

vars == << fetchState, listenersInstalled, wrapperSize, canvasSize,
           globeProjection, worldCountries, orthographicScale, mercatorScale,
           mercatorTranslation, mercatorViewportClipping, zoom, zoomState,
           currentZoomTransform, initialCanvasSize, projectionTransitionId,
           isProjectionTransitioning, toggleDisabled, currentProjectionState,
           isDragging, dragStart, currentRotation, mercatorOffset,
           rotationVelocity, mercatorVelocity, sinceLastDragTime,
           inertiaAnimationId, transitionCallbacks, inertiaCallbacks,
           rendered, nSamples, inertiaRun, domElements, startup, callLog >>

ORTHOGRAPHIC_ROTATION == << 10 * AngleDen, (0 - 20) * AngleDen, 0 >>
MERCATOR_ROTATION == << 0, 0, 0 >>
FullTurn == 360 * AngleDen

(* ------------------------------------------------------------------ *)
(* Projection blend, viewport solver, renderer                         *)
(* ------------------------------------------------------------------ *)

\* Fault variant of easeCubicInOut: d3.easeCubicIn, t*t*t, which is not
\* symmetric.
easeCubicIn(n) == 2 * n * n * n

\* d3.easeCubicInOut at n/EaseSteps, as a numerator over BlendDen:
\* ((t *= 2) <= 1 ? t*t*t : (t -= 2)*t*t + 2) / 2.
easeCubicInOut(n) ==
    IF 2 * n <= EaseSteps
    THEN (2 * n) * (2 * n) * (2 * n)
    ELSE (2 * n - 2 * EaseSteps) * (2 * n - 2 * EaseSteps) * (2 * n - 2 * EaseSteps)
         + 2 * EaseSteps * EaseSteps * EaseSteps

\* Math.min(1, elapsedTime / TRANSITION_DURATION), as a numerator over EaseSteps.
normalizedProgress(elapsedTime) == Min(EaseSteps, elapsedTime \div TimeStep)

\* Fault variant of Blend: every state drawn half way between the endpoints.
BlendHalfWay(state) == BlendDen \div 2

\* A projection state (0 or 1) as a blend factor.
Blend(state) == state * BlendDen

\* d3.interpolate(a, b)(t) on numbers: a * (1 - t) + b * t.
Interpolate(a, b, t) ==
    IF IsFinite(a) /\ IsFinite(b)
    THEN SMulDiv(a, BlendDen - t, BlendDen) + SMulDiv(b, t, BlendDen)
    ELSE NaN

\* The y at which d3.geoMercator, scaled to circumference c and translated
\* to ty, draws the latitude whose Mercator ordinate is latY.
MercatorProjectY(c, ty, latY) == ty - SMulDiv(latY, c * PixDen, MercDen)

\* The flat-mode scale as a length, scale = circumference / (2 pi).
MercatorScaleLength(c) == MulDiv(c * PixDen, TwoPiDen, TwoPiNum)

MercatorViewport(size) ==
    LET canvasWidth == size[1]
        canvasHeight == size[2]
        scale == Min(canvasWidth, canvasHeight)
        cx == (canvasWidth * PixDen) \div 2
        cy == (canvasHeight * PixDen) \div 2
        northernBoundaryY == MercatorProjectY(scale, cy, MERCATOR_Y_MAX)
        southernBoundaryY == MercatorProjectY(scale, cy, MERCATOR_Y_MIN)
        viewportHeight == southernBoundaryY - northernBoundaryY
        verticalCenteringOffset == cy - (northernBoundaryY + viewportHeight \div 2)
        translation == << cx, verticalCenteringOffset + cy >>
    IN  [ mercatorScale |-> scale,
          mercatorTranslation |-> translation,
          mercatorViewportClipping |->
              [ set |-> TRUE,
                x |-> 0,
                y |-> Min(canvasWidth * PixDen,
                          MercatorProjectY(scale, translation[2], MERCATOR_Y_MAX)),
                width |-> canvasWidth * PixDen,
                height |-> MercatorProjectY(scale, translation[2], MERCATOR_Y_MIN)
                           - MercatorProjectY(scale, translation[2], MERCATOR_Y_MAX) ] ]

\* Fault variant of calculateMercatorViewportParameters: the size of the
\* first resize is used, as for orthographicScale.
calculateFromInitialSize(size) ==
    MercatorViewport(IF initialCanvasSize[1] = 0 THEN size ELSE initialCanvasSize)

\* calculateMercatorViewportParameters() with the canvas at the given size.
calculateMercatorViewportParameters(size) == MercatorViewport(size)

NoClipping == [ set |-> FALSE, x |-> 0, y |-> 0, width |-> 0, height |-> 0 ]

\* projection.rotate(r): d3 keeps each angle modulo 360 degrees.
NormalizeRotation(r) ==
    [ i \in 1..3 |-> IF IsFinite(r[i]) THEN JsRem(r[i], FullTurn) ELSE NaN ]

NoProjection ==
    [ created |-> FALSE, alpha |-> 0, rotate |-> MERCATOR_ROTATION, scale |-> 0,
      translate |-> << 0, 0 >>, clipAngle |-> NULL ]

\* Fault variant of OffsetRotation: the globe's opening orientation instead
\* of the one derived from the flat map's offset.
OpeningRotation(offset, circumference) == ORTHOGRAPHIC_ROTATION

\* (-mercatorOffset / mercatorScale) * (180 / Math.PI) = -offset * 360 / circumference
OffsetRotation(offset, circumference) ==
    << IF IsFinite(offset) THEN SMulDiv(0 - offset, 360, circumference) ELSE NaN, 0, 0 >>

\* The module state renderProjectionFrame reads.
View ==
    [ canvasSize |-> canvasSize,
      currentProjectionState |-> currentProjectionState,
      isProjectionTransitioning |-> isProjectionTransitioning,
      currentRotation |-> currentRotation,
      mercatorOffset |-> mercatorOffset,
      currentZoomTransform |-> currentZoomTransform,
      orthographicScale |-> orthographicScale,
      mercatorScale |-> mercatorScale,
      mercatorTranslation |-> mercatorTranslation,
      mercatorViewportClipping |-> mercatorViewportClipping,
      worldCountries |-> worldCountries ]

\* Fault variant of ZoomScale: the zoom factor applied in every state.
ZoomScaleUnguarded(v) == v.currentZoomTransform

\* zoomScale of renderProjectionFrame: the zoom factor applies in globe mode
\* outside a transition only.
ZoomScale(v) ==
    IF v.currentProjectionState = ORTHOGRAPHIC /\ ~v.isProjectionTransitioning
    THEN v.currentZoomTransform
    ELSE zoomIdentity

\* renderProjectionFrame(transitionProgress) on the state v: the frame drawn,
\* which is also what the shared projection object is left holding.
renderProjectionFrame(v, transitionProgress) ==
    LET canvasWidth == v.canvasSize[1]
        canvasHeight == v.canvasSize[2]
        startRotation ==
            IF v.currentProjectionState = MERCATOR
            THEN OffsetRotation(v.mercatorOffset, v.mercatorScale)
            ELSE v.currentRotation
        interpolatedRotation ==
            [ i \in 1..3 |->
                Interpolate(startRotation[i], MERCATOR_ROTATION[i], transitionProgress) ]
        interpolatedScale ==
            Interpolate(v.orthographicScale, MercatorScaleLength(v.mercatorScale),
                        transitionProgress)
        interpolatedTranslation ==
            << Interpolate((canvasWidth * PixDen) \div 2, v.mercatorTranslation[1],
                           transitionProgress),
               Interpolate((canvasHeight * PixDen) \div 2, v.mercatorTranslation[2],
                           transitionProgress) >>
        interpolatedOffset ==
            IF IsFinite(v.mercatorOffset)
            THEN SDiv(SMulDiv(v.mercatorOffset, transitionProgress, BlendDen),
                      AngleDen \div PixDen)
            ELSE NaN
        adjustedTranslation ==
            << JsAdd(interpolatedTranslation[1],
                     IF IsFinite(interpolatedOffset) THEN 0 - interpolatedOffset ELSE NaN),
               interpolatedTranslation[2] >>
        zoomScale == ZoomScale(v)
        finalScale == MulDiv(interpolatedScale, zoomScale, ZoomDen)
        rectClip == 2 * transitionProgress > BlendDen /\ v.mercatorViewportClipping.set
        hemisphereExpansionAngle ==
            IF 2 * transitionProgress <= BlendDen
            THEN 90 * AngleDen + MulDiv(2 * 10 * AngleDen, transitionProgress, BlendDen)
            ELSE NULL
        cartographicElementsClipAngle ==
            IF 2 * transitionProgress <= BlendDen
            THEN 90 * AngleDen + MulDiv(2 * 90 * AngleDen, transitionProgress, BlendDen)
            ELSE 180 * AngleDen
    IN  [ alpha |-> transitionProgress,
          rotate |-> NormalizeRotation(interpolatedRotation),
          scale |-> finalScale,
          translate |-> adjustedTranslation,
          zoomScale |-> zoomScale,
          canvasSize |-> v.canvasSize,
          rectClip |-> rectClip,
          countries |-> v.worldCountries,
          countriesClipAngle |-> hemisphereExpansionAngle,
          clipAngle |-> cartographicElementsClipAngle ]

\* The projection object after a frame has been drawn through it.
ProjectionAfter(frame) ==
    [ created |-> TRUE, alpha |-> frame.alpha, rotate |-> frame.rotate,
      scale |-> frame.scale, translate |-> frame.translate,
      clipAngle |-> frame.clipAngle ]

(* ------------------------------------------------------------------ *)
(* The blended raw projection                                          *)
(* ------------------------------------------------------------------ *)

\* Plane coordinates of the raw projections are in units of 1/RawDen.
RawDen == 1000

\* Math.sin, Math.cos, the angle in radians and ln(tan(pi/4 + a/2)) at the
\* angles the model projects, in degrees.  -90 * pi/180 is -pi/2 exactly, so
\* that the Mercator ordinate of the south pole is log(0) = -Infinity; at
\* the north pole tan(pi/2) is 1.6e16 and the ordinate 37.332.
Sine(a) ==
    CASE a = 0 -> 0
      [] a = 30 -> 500
      [] a = 90 -> 1000
      [] a = 0 - 30 -> 0 - 500
      [] a = 0 - 90 -> 0 - 1000
Cosine(a) ==
    CASE a = 0 -> 1000
      [] a = 30 -> 866
      [] a = 90 -> 0
      [] a = 0 - 30 -> 866
      [] a = 0 - 90 -> 0
Radians(a) ==
    CASE a = 0 -> 0
      [] a = 30 -> 524
      [] a = 90 -> 1571
      [] a = 0 - 30 -> 0 - 524
      [] a = 0 - 90 -> 0 - 1571
LogTan(a) ==
    CASE a = 0 -> 0
      [] a = 30 -> 549
      [] a = 90 -> 37332
      [] a = 0 - 30 -> 0 - 549
      [] a = 0 - 90 -> NegInf

\* d3.geoOrthographicRaw(x, y) = [cos(y) sin(x), sin(y)].
geoOrthographicRaw(point) ==
    << SMulDiv(Sine(point[1]), Cosine(point[2]), RawDen), Sine(point[2]) >>

\* d3.geoMercatorRaw(lambda, phi) = [lambda, log(tan((pi/2 + phi) / 2))].
geoMercatorRaw(point) == << Radians(point[1]), LogTan(point[2]) >>

\* -a on a number that may be non-finite.
JsNeg(a) == IF IsNaN(a) THEN NaN ELSE 0 - a

\* a + t * (b - a), t a numerator over BlendDen.
JsLerp(a, b, t) == JsAdd(a, JsScale(JsAdd(b, JsNeg(a)), t, BlendDen))

\* The raw projection createProjectionInterpolator installs for the blend
\* factor transitionProgress, applied to a point:
\*   [x0 + transitionProgress * (x1 - x0), y0 + transitionProgress * (y1 - y0)]
projectionMutator(transitionProgress, point) ==
    LET start == geoOrthographicRaw(point)
        end == geoMercatorRaw(point)
    IN  << JsLerp(start[1], end[1], transitionProgress),
           JsLerp(start[2], end[2], transitionProgress) >>

(* ------------------------------------------------------------------ *)
(* Hit test                                                            *)
(* ------------------------------------------------------------------ *)

\* Fault variant of WithinRadius: a point on the circle is outside.
WithinRadiusStrict(d2, r, unit) ==
    LET q == r \div unit IN d2 < q * q

\* sqrt(d2) <= r / unit, for integers d2 >= 0, r >= 0 (no rounding).
WithinRadius(d2, r, unit) ==
    LET q == r \div unit
        rem == r % unit
    IN  IF d2 <= q * q THEN TRUE
        ELSE IF d2 >= (q + 1) * (q + 1) THEN FALSE
        ELSE (d2 - q * q) * unit <= 2 * q * rem + (rem * rem) \div unit

\* isPointInVisibleArea(x, y) on the state v with the projection proj.
isPointInVisibleArea(v, proj, p) ==
    IF \/ v.currentProjectionState = MERCATOR
       \/ (v.isProjectionTransitioning /\ 2 * proj.alpha > BlendDen)
    THEN IF ~v.mercatorViewportClipping.set THEN FALSE
         ELSE LET canvasWidth == v.canvasSize[1] * PixDen
                  mapWidth == v.mercatorScale * PixDen
                  horizontalPadding == SDiv(canvasWidth - mapWidth, 2)
                  clip == v.mercatorViewportClipping
                  inVerticalBounds ==
                      p[2] * PixDen >= clip.y /\ p[2] * PixDen <= clip.y + clip.height
                  inHorizontalBounds ==
                      /\ p[1] * PixDen >= horizontalPadding
                      /\ p[1] * PixDen <= canvasWidth - horizontalPadding
              IN  inVerticalBounds /\ inHorizontalBounds
    ELSE LET dx2 == 2 * p[1] - v.canvasSize[1]
             dy2 == 2 * p[2] - v.canvasSize[2]
         IN  WithinRadius(dx2 * dx2 + dy2 * dy2,
                          2 * v.orthographicScale * v.currentZoomTransform,
                          PixDen * ZoomDen)

(* ------------------------------------------------------------------ *)
(* requestAnimationFrame                                               *)
(* ------------------------------------------------------------------ *)

CallbackIds(tq, iq) == { c.id : c \in tq } \cup iq

\* The id requestAnimationFrame returns.  The program only compares ids for
\* identity (cancelAnimationFrame), so the model hands out the smallest id
\* that is not in use.
FreshId(held) == CHOOSE n \in 1..(Cardinality(held) + 1) :
                    n \notin held /\ \A m \in 1..(n - 1) : m \in held

\* The ids in use when the callback `fired` runs (NULL: no callback is
\* running): those of the callbacks still queued, and the one
\* inertiaAnimationId holds unless it is the running callback's, which the
\* handler overwrites with the id it asks for.  projectionTransitionId is
\* written and never read.
IdsInUse(tq, iq, iid, fired) ==
    (CallbackIds(tq, iq) \cup { iid }) \ { fired, NULL }

\* Time dt passes after the timestamp stored `since` ago.
Later(since, dt, cap) == IF since = NULL THEN NULL ELSE Min(since + dt, cap)

(* ------------------------------------------------------------------ *)
(* Inertia                                                             *)
(* ------------------------------------------------------------------ *)

\* applyInertia() on the state v, with the inertia id and queue as given: what
\* it leaves in the variables it writes, and the frame it draws (if any).
applyInertia(v, rv, mv, id, iq, held) ==
    IF v.currentProjectionState = ORTHOGRAPHIC
    THEN IF JsAbsLess(rv[1], MIN_VELOCITY) /\ JsAbsLess(rv[2], MIN_VELOCITY)
         THEN [ currentRotation |-> v.currentRotation, rotationVelocity |-> rv,
                mercatorOffset |-> v.mercatorOffset, mercatorVelocity |-> mv,
                inertiaAnimationId |-> NULL, inertiaCallbacks |-> iq \ {id},
                frames |-> << >> ]
         ELSE LET rotation == << JsAdd(v.currentRotation[1], rv[1]),
                                 JsAdd(v.currentRotation[2], rv[2]),
                                 v.currentRotation[3] >>
                  fresh == FreshId(held \cup iq)
              IN  [ currentRotation |-> rotation,
                    rotationVelocity |-> << JsScale(rv[1], FRICTION_NUM, FRICTION_DEN),
                                            JsScale(rv[2], FRICTION_NUM, FRICTION_DEN) >>,
                    mercatorOffset |-> v.mercatorOffset, mercatorVelocity |-> mv,
                    inertiaAnimationId |-> fresh,
                    inertiaCallbacks |-> iq \cup {fresh},
                    frames |-> << renderProjectionFrame(
                                    [v EXCEPT !.currentRotation = rotation],
                                    Blend(v.currentProjectionState)) >> ]
    ELSE IF JsAbsLess(mv, MIN_VELOCITY)
         THEN [ currentRotation |-> v.currentRotation, rotationVelocity |-> rv,
                mercatorOffset |-> v.mercatorOffset, mercatorVelocity |-> mv,
                inertiaAnimationId |-> NULL, inertiaCallbacks |-> iq \ {id},
                frames |-> << >> ]
         ELSE LET fullWidth == v.mercatorScale * AngleDen
                  offset == JsWrap(JsAdd(v.mercatorOffset, mv), fullWidth)
                  fresh == FreshId(held \cup iq)
              IN  [ currentRotation |-> v.currentRotation, rotationVelocity |-> rv,
                    mercatorOffset |-> offset,
                    mercatorVelocity |-> JsScale(mv, FRICTION_NUM, FRICTION_DEN),
                    inertiaAnimationId |-> fresh,
                    inertiaCallbacks |-> iq \cup {fresh},
                    frames |-> << renderProjectionFrame(
                                    [v EXCEPT !.mercatorOffset = offset],
                                    Blend(v.currentProjectionState)) >> ]

\* No inertia loop is followed.
NoRun == [ counted |-> FALSE, v0 |-> << 0, 0 >>, ticks |-> 0, applied |-> << 0, 0 >> ]

\* The history after a call of applyInertia() on the state v that left r: a
\* call in globe mode that moved the rotation is counted; the loop is no
\* longer followed once it has stopped or has run in flat mode.
RunAfter(run, v, r) ==
    IF v.currentProjectionState # ORTHOGRAPHIC \/ r.inertiaAnimationId = NULL
    THEN NoRun
    ELSE [ run EXCEPT
             !.counted = TRUE,
             !.ticks = @ + 1,
             !.applied = << @[1] + (r.currentRotation[1] - v.currentRotation[1]),
                            @[2] + (r.currentRotation[2] - v.currentRotation[2]) >> ]

\* The projection after the frames fs have been drawn (unchanged if none).
ProjectionAfterFrames(proj, fs) ==
    IF fs = << >> THEN proj ELSE ProjectionAfter(fs[Len(fs)])

(* ------------------------------------------------------------------ *)
(* Initial state                                                       *)
(* ------------------------------------------------------------------ *)

\* The elements the module looks up at its top level.
Elements == { "canvas", "wrapper", "toggle" }

\* How the module's top-level code ends with the elements dom in the page:
\* globeCanvas.node().getContext('2d') throws without a canvas, before the
\* test for missing elements; that test logs an error and skips the rest.
ModuleStart(dom) ==
    IF "canvas" \notin dom THEN "threw"
    ELSE IF dom # Elements THEN "reported"
    ELSE "running"

\* The state after the module's top-level code has run in a page with the
\* elements dom.
InitWith(dom) ==
    /\ domElements = dom
    /\ startup = ModuleStart(dom)
    /\ callLog = << >>
    /\ fetchState = IF ModuleStart(dom) = "running" THEN "pending" ELSE "none"
    /\ listenersInstalled = FALSE
    /\ wrapperSize \in WrapperSizes
    /\ canvasSize \in InitialCanvasSizes
    /\ globeProjection = NoProjection
    /\ worldCountries = FALSE
    /\ orthographicScale = NULL
    /\ mercatorScale = NULL
    /\ mercatorTranslation = << NULL, NULL >>
    /\ mercatorViewportClipping = NoClipping
    /\ zoom = FALSE
    /\ zoomState = zoomIdentity
    /\ currentZoomTransform = zoomIdentity
    /\ initialCanvasSize = << 0, 0 >>
    /\ projectionTransitionId = NULL
    /\ isProjectionTransitioning = FALSE
    /\ toggleDisabled = FALSE
    /\ currentProjectionState = ORTHOGRAPHIC
    /\ isDragging = FALSE
    /\ dragStart = << NULL, NULL >>
    /\ currentRotation = ORTHOGRAPHIC_ROTATION
    /\ mercatorOffset = 0
    /\ rotationVelocity = << 0, 0 >>
    /\ mercatorVelocity = 0
    /\ sinceLastDragTime = NULL
    /\ inertiaAnimationId = NULL
    /\ transitionCallbacks = {}
    /\ inertiaCallbacks = {}
    /\ rendered = FALSE
    /\ nSamples = 0
    /\ inertiaRun = NoRun

\* The page has all three elements.
Init == InitWith(Elements)

\* Any of the three elements may be absent.
StartInit == \E dom \in SUBSET Elements : InitWith(dom)

(* ------------------------------------------------------------------ *)
(* Resize and start-up                                                 *)
(* ------------------------------------------------------------------ *)

\* Fault variant of ZoomAfterResize: the zoom factor survives the resize.
ZoomKeptOnResize(zoomBehaviour, k) == k

\* The zoom factor after a size change: reset once the zoom behaviour exists.
\*   if (zoom) { currentZoomTransform = d3.zoomIdentity; ...call(zoom.transform, ...) }
ZoomAfterResize(zoomBehaviour, k) == IF zoomBehaviour THEN zoomIdentity ELSE k

\* handleCanvasResize() with the wrapper at newSize and worldCountries as
\* given: what it leaves in the variables it writes, and the frames drawn.
handleCanvasResize(newSize, countries) ==
    LET initialSize == IF initialCanvasSize[1] = 0 THEN newSize ELSE initialCanvasSize
    IN  IF canvasSize = newSize
        THEN [ initialCanvasSize |-> initialSize, canvasSize |-> canvasSize,
               orthographicScale |-> orthographicScale,
               mercatorScale |-> mercatorScale,
               mercatorTranslation |-> mercatorTranslation,
               mercatorViewportClipping |-> mercatorViewportClipping,
               currentZoomTransform |-> currentZoomTransform,
               zoomState |-> zoomState,
               globeProjection |-> globeProjection,
               frames |-> << >> ]
        ELSE LET oScale == (Min(initialSize[1], initialSize[2]) * PixDen) \div 2
                           - 10 * PixDen
                 merc == calculateMercatorViewportParameters(newSize)
                 v == [ View EXCEPT
                          !.canvasSize = newSize,
                          !.orthographicScale = oScale,
                          !.mercatorScale = merc.mercatorScale,
                          !.mercatorTranslation = merc.mercatorTranslation,
                          !.mercatorViewportClipping = merc.mercatorViewportClipping,
                          !.currentZoomTransform =
                              ZoomAfterResize(zoom, currentZoomTransform),
                          !.worldCountries = countries ]
                 \* zoom.transform(...) dispatches a zoom event to the handler
                 zoomFrames ==
                     IF /\ zoom
                        /\ currentProjectionState = ORTHOGRAPHIC
                        /\ ~isProjectionTransitioning
                     THEN << renderProjectionFrame(v, Blend(currentProjectionState)) >>
                     ELSE << >>
                 before == ProjectionAfterFrames(globeProjection, zoomFrames)
                 configured ==
                     [ created |-> TRUE,
                       alpha |-> before.alpha,
                       clipAngle |-> before.clipAngle,
                       scale |-> IF currentProjectionState = ORTHOGRAPHIC
                                 THEN oScale
                                 ELSE MercatorScaleLength(merc.mercatorScale),
                       translate |-> IF currentProjectionState = ORTHOGRAPHIC
                                     THEN << (newSize[1] * PixDen) \div 2,
                                             (newSize[2] * PixDen) \div 2 >>
                                     ELSE merc.mercatorTranslation,
                       rotate |-> IF currentProjectionState = ORTHOGRAPHIC
                                  THEN NormalizeRotation(ORTHOGRAPHIC_ROTATION)
                                  ELSE NormalizeRotation(MERCATOR_ROTATION) ]
                 lastFrames ==
                     IF countries
                     THEN << renderProjectionFrame(v, Blend(currentProjectionState)) >>
                     ELSE << >>
             IN  [ initialCanvasSize |-> initialSize, canvasSize |-> newSize,
                   orthographicScale |-> oScale,
                   mercatorScale |-> merc.mercatorScale,
                   mercatorTranslation |-> merc.mercatorTranslation,
                   mercatorViewportClipping |-> merc.mercatorViewportClipping,
                   currentZoomTransform |-> v.currentZoomTransform,
                   zoomState |-> ZoomAfterResize(zoom, zoomState),
                   globeProjection |-> ProjectionAfterFrames(configured, lastFrames),
                   frames |-> zoomFrames \o lastFrames ]

\* window 'resize': the wrapper has taken the size s.
ResizeWith(s, countries) ==
        \E r \in { handleCanvasResize(s, countries) } :
            /\ startup = "running"
            /\ wrapperSize' = s
            /\ initialCanvasSize' = r.initialCanvasSize
            /\ canvasSize' = r.canvasSize
            /\ orthographicScale' = r.orthographicScale
            /\ mercatorScale' = r.mercatorScale
            /\ mercatorTranslation' = r.mercatorTranslation
            /\ mercatorViewportClipping' = r.mercatorViewportClipping
            /\ currentZoomTransform' = r.currentZoomTransform
            /\ zoomState' = r.zoomState
            /\ globeProjection' = r.globeProjection
            /\ rendered' = (rendered \/ r.frames # << >>)
            /\ UNCHANGED << fetchState, listenersInstalled, worldCountries, zoom,
                            projectionTransitionId, isProjectionTransitioning,
                            toggleDisabled, currentProjectionState, isDragging,
                            dragStart, currentRotation, mercatorOffset,
                            rotationVelocity, mercatorVelocity, sinceLastDragTime,
                            inertiaAnimationId, transitionCallbacks,
                            inertiaCallbacks, nSamples, inertiaRun,
                    domElements, startup, callLog >>

\* Fault variant of ResizeTo: the frame is drawn whether or not the
\* dataset has arrived.
ResizeToDrawing(s) == ResizeWith(s, TRUE)

\* The 'resize' listener runs with the wrapper at the size s.
ResizeTo(s) == ResizeWith(s, worldCountries)

Resize == \E s \in WrapperSizes : ResizeTo(s)

\* d3.json(...).then(...): the dataset arrives.  The first render throws if
\* handleCanvasResize found the canvas already at the wrapper's size (the
\* projection is only created on a size change); the promise's catch logs it
\* and the rest of the continuation (the listeners) does not run.
DataLoaded ==
    /\ fetchState = "pending"
    /\ \E r \in { handleCanvasResize(wrapperSize, TRUE) } :
       LET v == [ View EXCEPT
                    !.canvasSize = r.canvasSize,
                    !.orthographicScale = r.orthographicScale,
                    !.mercatorScale = r.mercatorScale,
                    !.mercatorTranslation = r.mercatorTranslation,
                    !.mercatorViewportClipping = r.mercatorViewportClipping,
                    !.currentZoomTransform = r.currentZoomTransform,
                    !.worldCountries = TRUE ]
           threw == ~r.globeProjection.created
       IN
       \E firstFrames \in { IF threw THEN << >>
                            ELSE << renderProjectionFrame(v, Blend(currentProjectionState)) >> } :
           /\ fetchState' = "resolved"
           /\ worldCountries' = TRUE
           /\ initialCanvasSize' = r.initialCanvasSize
           /\ canvasSize' = r.canvasSize
           /\ orthographicScale' = r.orthographicScale
           /\ mercatorScale' = r.mercatorScale
           /\ mercatorTranslation' = r.mercatorTranslation
           /\ mercatorViewportClipping' = r.mercatorViewportClipping
           /\ currentZoomTransform' = r.currentZoomTransform
           /\ zoomState' = r.zoomState
           /\ globeProjection' = ProjectionAfterFrames(r.globeProjection, firstFrames)
           /\ rendered' = (rendered \/ (r.frames \o firstFrames) # << >>)
           /\ listenersInstalled' = ~threw
           /\ zoom' = ~threw
    /\ UNCHANGED << wrapperSize, projectionTransitionId,
                    isProjectionTransitioning, toggleDisabled,
                    currentProjectionState, isDragging, dragStart,
                    currentRotation, mercatorOffset, rotationVelocity,
                    mercatorVelocity, sinceLastDragTime, inertiaAnimationId,
                    transitionCallbacks, inertiaCallbacks, nSamples, inertiaRun,
                    domElements, startup, callLog >>

\* d3.json(...).catch(...): the fetch fails.
DataFailed ==
    /\ fetchState = "pending"
    /\ fetchState' = "failed"
    /\ rendered' = rendered
    /\ UNCHANGED << listenersInstalled, wrapperSize, canvasSize,
                    globeProjection, worldCountries, orthographicScale,
                    mercatorScale, mercatorTranslation, mercatorViewportClipping,
                    zoom, zoomState, currentZoomTransform, initialCanvasSize,
                    projectionTransitionId, isProjectionTransitioning,
                    toggleDisabled, currentProjectionState, isDragging, dragStart,
                    currentRotation, mercatorOffset, rotationVelocity,
                    mercatorVelocity, sinceLastDragTime, inertiaAnimationId,
                    transitionCallbacks, inertiaCallbacks, nSamples, inertiaRun,
                    domElements, startup, callLog >>

(* ------------------------------------------------------------------ *)
(* Transition state machine                                            *)
(* ------------------------------------------------------------------ *)

HeldIds == IdsInUse(transitionCallbacks, inertiaCallbacks, inertiaAnimationId, NULL)

\* Fault variant of animateProjectionTransition: the button stays enabled.
animateWithButtonEnabled(targetProjectionState) ==
    LET id == FreshId(HeldIds)
    IN  /\ isProjectionTransitioning' = TRUE
        /\ toggleDisabled' = FALSE
        /\ currentRotation' =
               IF /\ currentProjectionState = MERCATOR
                  /\ targetProjectionState = ORTHOGRAPHIC
               THEN OffsetRotation(mercatorOffset, mercatorScale)
               ELSE currentRotation
        /\ transitionCallbacks' = transitionCallbacks \cup
               { [ id |-> id,
                   initialState |-> currentProjectionState,
                   finalState |-> targetProjectionState,
                   sinceTransitionStart |-> NULL,
                   drawn |-> NULL ] }
        /\ projectionTransitionId' = id

\* animateProjectionTransition(targetProjectionState), past its guard.
animateProjectionTransition(targetProjectionState) ==
    LET id == FreshId(HeldIds)
    IN  /\ isProjectionTransitioning' = TRUE
        /\ toggleDisabled' = TRUE
        /\ currentRotation' =
               IF /\ currentProjectionState = MERCATOR
                  /\ targetProjectionState = ORTHOGRAPHIC
               THEN OffsetRotation(mercatorOffset, mercatorScale)
               ELSE currentRotation
        /\ transitionCallbacks' = transitionCallbacks \cup
               { [ id |-> id,
                   initialState |-> currentProjectionState,
                   finalState |-> targetProjectionState,
                   sinceTransitionStart |-> NULL,
                   drawn |-> NULL ] }
        /\ projectionTransitionId' = id

\* Fault variant of Toggle: toggleProjectionType() without the guard of
\* animateProjectionTransition.
ToggleUnguarded ==
    /\ listenersInstalled
    /\ animateProjectionTransition(
           IF currentProjectionState = ORTHOGRAPHIC THEN MERCATOR ELSE ORTHOGRAPHIC)
    /\ rendered' = rendered
    /\ UNCHANGED << fetchState, listenersInstalled, wrapperSize, canvasSize,
                    globeProjection, worldCountries, orthographicScale,
                    mercatorScale, mercatorTranslation, mercatorViewportClipping,
                    zoom, zoomState, currentZoomTransform, initialCanvasSize,
                    currentProjectionState, isDragging, dragStart, mercatorOffset,
                    rotationVelocity, mercatorVelocity, sinceLastDragTime,
                    inertiaAnimationId, inertiaCallbacks, nSamples, inertiaRun,
                    domElements, startup, callLog >>

\* A click on the toggle button: toggleProjectionType().
Toggle ==
    /\ listenersInstalled
    /\ IF isProjectionTransitioning
       THEN UNCHANGED << isProjectionTransitioning, toggleDisabled, currentRotation,
                         transitionCallbacks, projectionTransitionId >>
       ELSE animateProjectionTransition(
                IF currentProjectionState = ORTHOGRAPHIC THEN MERCATOR ELSE ORTHOGRAPHIC)
    /\ rendered' = rendered
    /\ UNCHANGED << fetchState, listenersInstalled, wrapperSize, canvasSize,
                    globeProjection, worldCountries, orthographicScale,
                    mercatorScale, mercatorTranslation, mercatorViewportClipping,
                    zoom, zoomState, currentZoomTransform, initialCanvasSize,
                    currentProjectionState, isDragging, dragStart, mercatorOffset,
                    rotationVelocity, mercatorVelocity, sinceLastDragTime,
                    inertiaAnimationId, inertiaCallbacks, nSamples, inertiaRun,
                    domElements, startup, callLog >>

\* Fault variants of TransitionOver: over at once, and never over.
OverAtOnce(elapsedTime) == TRUE
NeverOver(elapsedTime) == FALSE

\* Has the transition reached its duration at this elapsed time?
TransitionOver(elapsedTime) == ~(elapsedTime < TRANSITION_DURATION)

\* Fault variant of TransitionProgress: the blend runs from the target back
\* to the source.
ProgressReversed(initialState, finalState, elapsedTime) ==
    Blend(finalState)
        - (finalState - initialState) * easeCubicInOut(normalizedProgress(elapsedTime))

\* The blend factor transitionFrame renders at this elapsed time.
TransitionProgress(initialState, finalState, elapsedTime) ==
    Blend(initialState)
        + (finalState - initialState) * easeCubicInOut(normalizedProgress(elapsedTime))

\* Fault variant of FinalProgress: the closing frame drawn at the source.
FinalProgressAtSource(targetProjectionState) == Blend(1 - targetProjectionState)

\* The blend factor of the frame drawn once the transition is over.
FinalProgress(targetProjectionState) == Blend(targetProjectionState)

\* The queued transitionFrame closures after the time dt has passed.  From
\* TRANSITION_DURATION on the elapsed time is read only through
\* elapsedTime < TRANSITION_DURATION and Math.min(1, ...).
AfterPause(tq, dt) ==
    { [ c EXCEPT !.sinceTransitionStart = Later(@, dt, TRANSITION_DURATION) ] : c \in tq }

\* The time since the last pointer sample after the time dt has passed.
DragPause(since, dt) == Later(since, dt, (MaxGap + 1) * TimeStep)

\* The elapsed time the closure c computes when it runs d TimeSteps after
\* the last clock reading:
\*   if (!transitionStartTime) transitionStartTime = timestamp;
\*   elapsedTime = timestamp - transitionStartTime
ElapsedTime(c, d) ==
    IF c.sinceTransitionStart = NULL THEN 0
    ELSE Later(c.sinceTransitionStart, d * TimeStep, TRANSITION_DURATION)

\* requestAnimationFrame runs the queued closure c of transitionFrame, d
\* TimeSteps after the last clock reading.
transitionFrame(c, d) ==
    LET elapsedTime == ElapsedTime(c, d)
        others == AfterPause(transitionCallbacks \ {c}, d * TimeStep)
        transitionProgress ==
            TransitionProgress(c.initialState, c.finalState, elapsedTime)
        id == FreshId(IdsInUse(transitionCallbacks, inertiaCallbacks,
                               inertiaAnimationId, c.id))
        \* the state the closing render reads
        done == [ View EXCEPT
                    !.isProjectionTransitioning = FALSE,
                    !.currentProjectionState = c.finalState,
                    !.currentZoomTransform =
                        IF c.finalState = MERCATOR THEN zoomIdentity
                        ELSE currentZoomTransform ]
    IN  /\ sinceLastDragTime' = DragPause(sinceLastDragTime, d * TimeStep)
        /\ UNCHANGED << fetchState, listenersInstalled, wrapperSize, canvasSize,
                        worldCountries, orthographicScale, mercatorScale,
                        mercatorTranslation, mercatorViewportClipping, zoom,
                        initialCanvasSize, isDragging, dragStart,
                        currentRotation, mercatorOffset, rotationVelocity,
                        mercatorVelocity, inertiaAnimationId,
                        inertiaCallbacks, nSamples, inertiaRun,
                    domElements, startup, callLog >>
        /\ rendered' = TRUE
        /\ IF ~TransitionOver(elapsedTime)
           THEN /\ transitionCallbacks' =
                       others \cup
                       { [ c EXCEPT !.id = id,
                                    !.sinceTransitionStart = elapsedTime,
                                    !.drawn = transitionProgress ] }
                /\ projectionTransitionId' = id
                /\ UNCHANGED << isProjectionTransitioning, toggleDisabled,
                                currentProjectionState, currentZoomTransform,
                                zoomState >>
                /\ \E v \in { View }, progress \in { transitionProgress } :
                       \E frame \in { renderProjectionFrame(v, progress) } :
                           globeProjection' = ProjectionAfter(frame)
           ELSE \* the frame at transitionProgress is drawn first and then
                \* overdrawn by the closing frame
                /\ transitionCallbacks' = others
                /\ isProjectionTransitioning' = FALSE
                /\ toggleDisabled' = FALSE
                /\ currentProjectionState' = c.finalState
                /\ currentZoomTransform' = done.currentZoomTransform
                /\ zoomState' = IF c.finalState = MERCATOR THEN zoomIdentity
                                ELSE zoomState
                /\ UNCHANGED projectionTransitionId
                /\ \E v \in { done }, progress \in { FinalProgress(c.finalState) } :
                       \E frame \in { renderProjectionFrame(v, progress) } :
                           globeProjection' = ProjectionAfter(frame)

TransitionFrameAt(d) == \E c \in transitionCallbacks : transitionFrame(c, d)

TransitionFrame == \E d \in TickDelays : TransitionFrameAt(d)

\* requestAnimationFrame runs a queued applyInertia().
InertiaFrame ==
    \E id \in inertiaCallbacks :
        \E r \in { applyInertia(View, rotationVelocity, mercatorVelocity,
                                 inertiaAnimationId, inertiaCallbacks \ {id},
                                 IdsInUse(transitionCallbacks, inertiaCallbacks,
                                          inertiaAnimationId, id)) } :
            /\ currentRotation' = r.currentRotation
            /\ rotationVelocity' = r.rotationVelocity
            /\ mercatorOffset' = r.mercatorOffset
            /\ mercatorVelocity' = r.mercatorVelocity
            /\ inertiaAnimationId' = r.inertiaAnimationId
            /\ inertiaCallbacks' = r.inertiaCallbacks
            /\ globeProjection' = ProjectionAfterFrames(globeProjection, r.frames)
            /\ rendered' = (rendered \/ r.frames # << >>)
            /\ inertiaRun' = IF inertiaRun.counted
                             THEN RunAfter(inertiaRun, View, r) ELSE NoRun
            /\ UNCHANGED << fetchState, listenersInstalled, wrapperSize, canvasSize,
                            worldCountries, orthographicScale, mercatorScale,
                            mercatorTranslation, mercatorViewportClipping, zoom,
                            zoomState, currentZoomTransform, initialCanvasSize,
                            projectionTransitionId, isProjectionTransitioning,
                            toggleDisabled, currentProjectionState, isDragging,
                            dragStart, sinceLastDragTime, transitionCallbacks,
                            nSamples,
                    domElements, startup, callLog >>

(* ------------------------------------------------------------------ *)
(* Pointer handlers                                                    *)
(* ------------------------------------------------------------------ *)

\* if (lastDragTime): a timestamp has been stored.
Truthy(since) == since # NULL

\* Fault variant of HasVelocity: the comparison the wrong way round.
HasVelocityInverted(rv) ==
    JsAbsLess(rv[1], MIN_VELOCITY) \/ JsAbsLess(rv[2], MIN_VELOCITY)

\* The rotation velocity exceeds the floor on some axis.
HasVelocity(rv) ==
    JsAbsGreater(rv[1], MIN_VELOCITY) \/ JsAbsGreater(rv[2], MIN_VELOCITY)

\* Fault variant of DragAngle: the sensitivity is not scaled by the zoom.
DragAngleUnscaled(dx, projectionScale) ==
    dx * ((SENSITIVITY_NUM * AngleDen) \div SENSITIVITY_DEN)

\* dx * k for k = sensitivity / (globeProjection.scale() / orthographicScale),
\* in angle units.
DragAngle(dx, projectionScale) ==
    LET k == MulDiv((SENSITIVITY_NUM * AngleDen) \div SENSITIVITY_DEN,
                    orthographicScale, projectionScale)
    IN  dx * k

\* The end of a drag, shared by pointer-up, pointer-out and a pointer-move
\* that leaves the visible area: inertia starts if there is velocity.
EndDrag ==
    LET start == /\ currentProjectionState = ORTHOGRAPHIC
                 /\ HasVelocity(rotationVelocity)
                 /\ inertiaAnimationId = NULL
    IN  /\ isDragging' = FALSE
        /\ dragStart' = << NULL, NULL >>
        \* lastDragTime is next read after the next mousedown has overwritten
        \* it: the time since it is no longer followed
        /\ sinceLastDragTime' = NULL
        /\ IF start
           THEN \E r \in { applyInertia(View, rotationVelocity, mercatorVelocity,
                                        inertiaAnimationId, inertiaCallbacks,
                                        HeldIds) } :
                /\ currentRotation' = r.currentRotation
                /\ rotationVelocity' = r.rotationVelocity
                /\ mercatorOffset' = r.mercatorOffset
                /\ mercatorVelocity' = r.mercatorVelocity
                /\ inertiaAnimationId' = r.inertiaAnimationId
                /\ inertiaCallbacks' = r.inertiaCallbacks
                /\ globeProjection' = ProjectionAfterFrames(globeProjection, r.frames)
                /\ rendered' = (rendered \/ r.frames # << >>)
                /\ inertiaRun' = RunAfter([ NoRun EXCEPT !.v0 = rotationVelocity ],
                                          View, r)
           ELSE /\ rendered' = rendered
                /\ UNCHANGED << currentRotation, rotationVelocity, mercatorOffset,
                                mercatorVelocity, inertiaAnimationId,
                                inertiaCallbacks, globeProjection, inertiaRun >>

\* handleMouseMove(event) for an event at the point p; where the handler
\* reads the clock, d TimeSteps after the last clock reading.  A behaviour
\* takes at most maxSamples pointer samples.
handleMouseMoveWithin(p, d, maxSamples) ==
        /\ listenersInstalled
        /\ d > 0 => isDragging /\ isPointInVisibleArea(View, globeProjection, p)
        /\ IF ~isDragging
           THEN /\ rendered' = rendered
                /\ UNCHANGED << isDragging, dragStart, currentRotation,
                                rotationVelocity, mercatorOffset, mercatorVelocity,
                                inertiaAnimationId, inertiaCallbacks,
                                globeProjection, sinceLastDragTime,
                                transitionCallbacks, nSamples, inertiaRun >>
           ELSE IF ~isPointInVisibleArea(View, globeProjection, p)
           THEN /\ EndDrag
                /\ UNCHANGED << transitionCallbacks, nSamples >>
           ELSE LET dx == p[1] - dragStart[1]
                    dy == p[2] - dragStart[2]
                    \* currentTime - lastDragTime
                    dt == DragPause(sinceLastDragTime, d * TimeStep)
                    rotation == globeProjection.rotate
                    newRotation ==
                        << JsAdd(rotation[1], DragAngle(dx, globeProjection.scale)),
                           JsAdd(rotation[2], 0 - DragAngle(dy, globeProjection.scale)),
                           rotation[3] >>
                    globe == currentProjectionState = ORTHOGRAPHIC
                    offset == JsAdd(mercatorOffset, 0 - dx * AngleDen)
                    v == IF globe
                         THEN [ View EXCEPT !.currentRotation = newRotation ]
                         ELSE [ View EXCEPT !.mercatorOffset = offset ]
                IN
                \E frame \in { renderProjectionFrame(v, Blend(currentProjectionState)) } :
                    /\ nSamples < maxSamples
                    /\ dt \in { g * TimeStep : g \in SampleGaps }
                    /\ nSamples' = nSamples + 1
                    /\ transitionCallbacks' = AfterPause(transitionCallbacks, d * TimeStep)
                    /\ IF globe
                       THEN /\ currentRotation' = newRotation
                            /\ rotationVelocity' =
                                   IF Truthy(sinceLastDragTime) /\ dt > 0
                                   THEN << JsRate(DragAngle(dx, globeProjection.scale), dt),
                                           JsRate(0 - DragAngle(dy, globeProjection.scale), dt) >>
                                   ELSE rotationVelocity
                            /\ UNCHANGED << mercatorOffset, mercatorVelocity >>
                       ELSE /\ mercatorOffset' = offset
                            /\ mercatorVelocity' =
                                   IF Truthy(sinceLastDragTime)
                                   THEN JsRate(0 - dx * AngleDen, dt)
                                   ELSE mercatorVelocity
                            /\ UNCHANGED << currentRotation, rotationVelocity >>
                    /\ sinceLastDragTime' = 0
                    /\ dragStart' = p
                    /\ globeProjection' = ProjectionAfter(frame)
                    /\ rendered' = TRUE
                    /\ UNCHANGED << isDragging, inertiaAnimationId, inertiaCallbacks,
                                    inertiaRun >>
        /\ UNCHANGED << fetchState, listenersInstalled, wrapperSize, canvasSize,
                        worldCountries, orthographicScale, mercatorScale,
                        mercatorTranslation, mercatorViewportClipping, zoom,
                        zoomState, currentZoomTransform, initialCanvasSize,
                        projectionTransitionId, isProjectionTransitioning,
                        toggleDisabled, currentProjectionState,
                    domElements, startup, callLog >>

handleMouseMove(p, d) == handleMouseMoveWithin(p, d, MaxSamples)

\* 'mousemove' at one of the pointer positions.
MouseMove == \E p \in PointerPoints, d \in 0..MaxGap : handleMouseMove(p, d)

\* Fault variant of CancelInertia: the pending inertia tick is left alone.
KeepInertia == UNCHANGED << inertiaCallbacks, inertiaAnimationId >>

\* if (inertiaAnimationId) { cancelAnimationFrame(...); inertiaAnimationId = null; }
CancelInertia ==
    IF inertiaAnimationId # NULL /\ inertiaAnimationId # 0
    THEN /\ inertiaCallbacks' = inertiaCallbacks \ {inertiaAnimationId}
         /\ inertiaAnimationId' = NULL
    ELSE UNCHANGED << inertiaCallbacks, inertiaAnimationId >>

\* Fault variant of MayStartDrag: no hit test.
MayStartDragAnywhere(p) == currentProjectionState = ORTHOGRAPHIC

\* The condition under which handleMouseDown starts a drag at p.
MayStartDrag(p) ==
    /\ isPointInVisibleArea(View, globeProjection, p)
    /\ currentProjectionState = ORTHOGRAPHIC

\* handleMouseDown(event) for an event at the point p.
handleMouseDown(p) ==
        /\ listenersInstalled
        /\ IF MayStartDrag(p)
           THEN /\ isDragging' = TRUE
                /\ dragStart' = p
                /\ sinceLastDragTime' = 0
                /\ CancelInertia
                /\ rotationVelocity' = << 0, 0 >>
                /\ inertiaRun' = NoRun
           ELSE UNCHANGED << isDragging, dragStart, sinceLastDragTime, inertiaCallbacks,
                             inertiaAnimationId, rotationVelocity, inertiaRun >>
        /\ rendered' = rendered
        /\ UNCHANGED << fetchState, listenersInstalled, wrapperSize, canvasSize,
                        globeProjection, worldCountries, orthographicScale,
                        mercatorScale, mercatorTranslation,
                        mercatorViewportClipping, zoom, zoomState,
                        currentZoomTransform, initialCanvasSize,
                        projectionTransitionId, isProjectionTransitioning,
                        toggleDisabled, currentProjectionState, currentRotation,
                        mercatorOffset, mercatorVelocity, transitionCallbacks,
                        nSamples,
                    domElements, startup, callLog >>

\* 'mousedown' at one of the pointer positions.
MouseDown == \E p \in PointerPoints : handleMouseDown(p)

\* handleMouseUp(event), the listener of 'mouseup' and of 'mouseout'.
handleMouseUp ==
    /\ listenersInstalled
    /\ IF isDragging
       THEN EndDrag
       ELSE /\ rendered' = rendered
            /\ UNCHANGED << isDragging, dragStart, currentRotation, rotationVelocity,
                            mercatorOffset, mercatorVelocity, inertiaAnimationId,
                            inertiaCallbacks, globeProjection, sinceLastDragTime,
                            inertiaRun >>
    /\ UNCHANGED << fetchState, listenersInstalled, wrapperSize, canvasSize,
                    worldCountries, orthographicScale, mercatorScale,
                    mercatorTranslation, mercatorViewportClipping, zoom, zoomState,
                    currentZoomTransform, initialCanvasSize, projectionTransitionId,
                    isProjectionTransitioning, toggleDisabled,
                    currentProjectionState, transitionCallbacks, nSamples,
                    domElements, startup, callLog >>

MouseUp == handleMouseUp

MouseOut == handleMouseUp

(* ------------------------------------------------------------------ *)
(* Zoom                                                                *)
(* ------------------------------------------------------------------ *)

\* Fault variant of WheelScale: no scale extent.
WheelScaleUnclamped(k, step) ==
    IF step >= 0 THEN k * 2 ^ step ELSE k \div 2 ^ (0 - step)

\* d3-zoom on a wheel event: the new scale, clamped to the scale extent.
WheelScale(k, step) ==
    LET scaled == IF step >= 0 THEN k * 2 ^ step ELSE k \div 2 ^ (0 - step)
    IN  Max(SCALE_EXTENT_MIN, Min(SCALE_EXTENT_MAX, scaled))

\* Fault variant of ZoomAccepted: a 'zoom' listener without the guard.
ZoomAlwaysAccepted == TRUE

\* The 'zoom' listener's guard.
ZoomAccepted == currentProjectionState = ORTHOGRAPHIC /\ ~isProjectionTransitioning

\* A wheel event of 2^step on the canvas.  d3-zoom drops an event that leaves its scale
\* unchanged unless a wheel gesture is already under way; otherwise it stores
\* the new transform on the canvas and calls the 'zoom' listener.
handleWheel(step, inGesture) ==
        LET k == WheelScale(zoomState, step)
            v == [ View EXCEPT !.currentZoomTransform = k ]
        IN
        \E frame \in { renderProjectionFrame(v, Blend(currentProjectionState)) } :
            /\ listenersInstalled
            /\ zoom
            /\ IF k = zoomState /\ ~inGesture
               THEN /\ rendered' = rendered
                    /\ UNCHANGED << zoomState, currentZoomTransform, globeProjection >>
               ELSE /\ zoomState' = k
                    /\ IF ZoomAccepted
                       THEN /\ currentZoomTransform' = k
                            /\ globeProjection' = ProjectionAfter(frame)
                            /\ rendered' = TRUE
                       ELSE /\ rendered' = rendered
                            /\ UNCHANGED << currentZoomTransform, globeProjection >>
            /\ UNCHANGED << fetchState, listenersInstalled, wrapperSize, canvasSize,
                            worldCountries, orthographicScale, mercatorScale,
                            mercatorTranslation, mercatorViewportClipping, zoom,
                            initialCanvasSize, projectionTransitionId,
                            isProjectionTransitioning, toggleDisabled,
                            currentProjectionState, isDragging, dragStart,
                            currentRotation, mercatorOffset, rotationVelocity,
                            mercatorVelocity, sinceLastDragTime, inertiaAnimationId,
                            transitionCallbacks, inertiaCallbacks, nSamples, inertiaRun,
                    domElements, startup, callLog >>

Wheel == \E step \in WheelSteps, inGesture \in BOOLEAN : handleWheel(step, inGesture)

(* ------------------------------------------------------------------ *)
(* Specification                                                       *)
(* ------------------------------------------------------------------ *)

Next ==
    \/ DataLoaded
    \/ DataFailed
    \/ Resize
    \/ Toggle
    \/ TransitionFrame
    \/ InertiaFrame
    \/ MouseMove
    \/ MouseDown
    \/ MouseUp
    \/ MouseOut
    \/ Wheel

Spec == Init /\ [][Next]_vars


\* Wheel, resize and transition events only, with wheel steps in both
\* directions: the zoom factor moves over the whole scale extent.
ZoomWheelSteps == { 0 - 1, 1, 4 }

ZoomWheel ==
    \E step \in ZoomWheelSteps, inGesture \in BOOLEAN : handleWheel(step, inGesture)

ZoomNext ==
    \/ DataLoaded
    \/ DataFailed
    \/ Resize
    \/ Toggle
    \/ TransitionFrame
    \/ ZoomWheel

ZoomSpec == Init /\ [][ZoomNext]_vars

\* The scheduler keeps delivering animation frames, and the clock has moved
\* on when a frame is delivered.
LiveSpec ==
    /\ Init
    /\ [][Next]_vars
    /\ WF_vars(\E d \in TickDelays \ {0} : TransitionFrameAt(d))


\* Pointer, toggle and frame events only, with two samples to a behaviour: a
\* drag can outlast a transition and be sampled in both modes.  The pointer
\* goes down at one point and is sampled at its neighbour; a frame comes
\* at once or PanTickDelay TimeSteps after the last clock reading.
PanSamples == 2
PanTickDelay == 3

PanTransitionFrame == TransitionFrameAt(0) \/ TransitionFrameAt(PanTickDelay)

PanMouseMove ==
    \E d \in 0..MaxGap : handleMouseMoveWithin(<< 301, 151 >>, d, PanSamples)

PanMouseDown == handleMouseDown(<< 300, 150 >>)

PanNext ==
    \/ DataLoaded
    \/ Toggle
    \/ PanTransitionFrame
    \/ InertiaFrame
    \/ PanMouseMove
    \/ PanMouseDown
    \/ MouseUp

PanSpec == Init /\ [][PanNext]_vars

\* As LiveSpec, for both animation loops.
PanLiveSpec ==
    /\ Init
    /\ [][PanNext]_vars
    /\ WF_vars(TransitionFrameAt(PanTickDelay))
    /\ WF_vars(InertiaFrame)


\* As Spec, in a page that may lack some of the elements.
StartSpec == StartInit /\ [][Next]_vars


\* Resizes between two wrapper sizes, with the events that render and the
\* pointer-down that uses the hit test.
SizeWrapperSizes == { << 800, 400 >>, << 600, 500 >> }

SizeResize == \E s \in SizeWrapperSizes : ResizeTo(s)

SizeNext ==
    \/ DataLoaded
    \/ DataFailed
    \/ SizeResize
    \/ Toggle
    \/ TransitionFrame
    \/ Wheel
    \/ MouseDown
    \/ MouseUp

SizeSpec == Init /\ [][SizeNext]_vars


\* A long vertical drag over the idle globe: the pointer goes down near one
\* pole of the disc and is sampled near the other.
PolePoints == { << 400, 15 >>, << 400, 385 >> }

PoleMouseDown == \E p \in PolePoints : handleMouseDown(p)

PoleMouseMove == \E p \in PolePoints, d \in 0..MaxGap : handleMouseMove(p, d)

PoleNext ==
    \/ DataLoaded
    \/ PoleMouseDown
    \/ PoleMouseMove
    \/ MouseUp
    \/ InertiaFrame

PoleSpec == Init /\ [][PoleNext]_vars

(* ------------------------------------------------------------------ *)
(* Properties                                                          *)
(* ------------------------------------------------------------------ *)

\* The endpoint blend factor of a projection state, written out.
Endpoint(state) == IF state = MERCATOR THEN BlendDen ELSE 0

\* The tick of closure c, d TimeSteps after the last clock reading, is the
\* one that finds the transition's duration elapsed.
CompletingTick(c, d) ==
    ~(ElapsedTime(c, d) < TRANSITION_DURATION) /\ transitionFrame(c, d)

\* C1: a toggle request while a transition is in progress changes nothing
\* (no second chain of ticks, same source, target and start time); a toggle
\* request while idle starts exactly one transition, to the other mode.
C1_ToggleGuard ==
    [][Toggle =>
         IF isProjectionTransitioning
         THEN UNCHANGED vars
         ELSE /\ isProjectionTransitioning'
              /\ Cardinality(transitionCallbacks') = 1
              /\ \A c \in transitionCallbacks' :
                    /\ c.initialState = currentProjectionState
                    /\ c.finalState = 1 - currentProjectionState
                    /\ c.sinceTransitionStart = NULL
              /\ currentProjectionState' = currentProjectionState]_vars

\* A toggle request can arrive in the middle of a running transition.
C1_Witness ==
    /\ listenersInstalled
    /\ isProjectionTransitioning
    /\ \E c \in transitionCallbacks : c.sinceTransitionStart = 2 * TimeStep

\* C2: the first tick whose elapsed time has reached TRANSITION_DURATION
\* leaves the machine idle, the mode equal to the target, the toggle enabled
\* and the projection's blend factor exactly at the target's endpoint.
C2_CompletingTick ==
    [][\A c \in transitionCallbacks, d \in TickDelays :
          CompletingTick(c, d) =>
              /\ ~isProjectionTransitioning'
              /\ transitionCallbacks' = {}
              /\ currentProjectionState' = c.finalState
              /\ ~toggleDisabled'
              /\ globeProjection'.alpha = Endpoint(c.finalState)]_vars

\* A transition to the flat map has completed.
C2_Witness ==
    /\ ~isProjectionTransitioning
    /\ transitionCallbacks = {}
    /\ currentProjectionState = MERCATOR
    /\ ~toggleDisabled
    /\ globeProjection.alpha = BlendDen

\* C3: while a transition is in progress the projection's blend factor is
\* changed by transition ticks only.
C3_OnlyTicksSetBlend ==
    [][isProjectionTransitioning /\ globeProjection'.alpha # globeProjection.alpha
          => TransitionFrame]_vars

\* Is blend factor b at least as near the endpoint of finalState as a?
Toward(finalState, a, b) == IF finalState = MERCATOR THEN a <= b ELSE b <= a

\* C4: the blend factors drawn by the successive ticks of a transition never
\* move away from the target: non-decreasing towards the flat map,
\* non-increasing towards the globe.
C4_BlendTowardTarget ==
    [][\A c \in transitionCallbacks, d \in TickDelays :
          c.drawn # NULL /\ transitionFrame(c, d) =>
              LET progress ==
                      TransitionProgress(c.initialState, c.finalState, ElapsedTime(c, d))
              IN  /\ Toward(c.finalState, c.drawn, progress)
                  /\ CompletingTick(c, d) =>
                        Toward(c.finalState, progress, globeProjection'.alpha)]_vars

\* C4 as stated: the blend factors drawn by successive ticks never decrease,
\* in either direction.
C4_BlendNeverDecreases ==
    [][\A c \in transitionCallbacks, d \in TickDelays :
          c.drawn # NULL /\ transitionFrame(c, d) =>
              c.drawn <= TransitionProgress(c.initialState, c.finalState,
                                            ElapsedTime(c, d))]_vars

\* A transition to the globe whose last tick drew a blend factor strictly
\* between the endpoints.
C4_Witness ==
    \E c \in transitionCallbacks :
        /\ c.finalState = ORTHOGRAPHIC
        /\ c.drawn # NULL
        /\ 0 < c.drawn
        /\ c.drawn < BlendDen


\* C5: whenever no transition is in progress and a frame has been rendered,
\* the projection's blend factor is exactly the endpoint of the committed
\* mode.
C5_IdleBlendIsMode ==
    rendered /\ ~isProjectionTransitioning
        => globeProjection.alpha = Endpoint(currentProjectionState)

\* Idle on the globe again, after a transition back from the flat map.
C5_Witness ==
    /\ rendered
    /\ ~isProjectionTransitioning
    /\ currentProjectionState = ORTHOGRAPHIC
    /\ projectionTransitionId # NULL
    /\ globeProjection.alpha = 0

\* C6: the committed mode changes only in the completing tick of a
\* transition.
C6_ModeChangesOnCompletion ==
    [][currentProjectionState' # currentProjectionState =>
          \E c \in transitionCallbacks, d \in TickDelays : CompletingTick(c, d)]_vars

\* The mode has been committed to the flat map while a drag was going on.
C6_Witness ==
    /\ currentProjectionState = MERCATOR
    /\ ~isProjectionTransitioning
    /\ isDragging

\* C7: the toggle control is disabled exactly while a transition is in
\* progress.
C7_ToggleDisabledIffTransitioning == toggleDisabled <=> isProjectionTransitioning

\* The control is disabled in the middle of a transition.
C7_Witness ==
    /\ toggleDisabled
    /\ isProjectionTransitioning
    /\ \E c \in transitionCallbacks : c.drawn # NULL /\ c.drawn # Endpoint(c.initialState)

\* C8: every transition that has started eventually completes, as long as
\* frames keep being delivered with advancing timestamps.
C8_TransitionCompletes == isProjectionTransitioning ~> ~isProjectionTransitioning

\* A transition completed although pointer samples were taken on the way.
C8_Witness ==
    /\ ~isProjectionTransitioning
    /\ projectionTransitionId # NULL
    /\ nSamples > 0

\* No drag, inertia or pan has touched the rotation or the offset.
Untouched ==
    /\ nSamples = 0
    /\ mercatorOffset = 0
    /\ inertiaAnimationId = NULL

\* C9: with no drag, inertia or pan, the rotation is changed by nothing but
\* the toggle that starts a transition from the flat map to the globe, which
\* sets it to (0, 0, 0), the rotation derived from the flat map's offset; so
\* a round trip from the globe ends at (0, 0, 0), not at the rotation the
\* globe had before.
C9_RotationAfterFlat ==
    [][Untouched /\ Untouched' =>
          currentRotation' =
              IF /\ ~isProjectionTransitioning
                 /\ currentProjectionState = MERCATOR
                 /\ Toggle
              THEN << 0, 0, 0 >>
              ELSE currentRotation]_vars

\* C9 as stated: with no drag, inertia or pan the rotation stays the one the
\* globe opened with.
C9_RotationRoundTrip == Untouched /\ rendered => currentRotation = ORTHOGRAPHIC_ROTATION

\* Back on the globe after a full round trip without any pointer sample.
C9_Witness ==
    /\ Untouched
    /\ currentProjectionState = ORTHOGRAPHIC
    /\ ~isProjectionTransitioning
    /\ projectionTransitionId # NULL
    /\ currentRotation = << 0, 0, 0 >>

\* C10: whenever the committed mode is the flat map, the zoom factor is the
\* identity.
C10_FlatZoomIsIdentity ==
    currentProjectionState = MERCATOR => currentZoomTransform = zoomIdentity

\* On the flat map after a wheel event that d3-zoom has recorded.
C10_Witness ==
    /\ currentProjectionState = MERCATOR
    /\ zoomState # zoomIdentity
    /\ currentZoomTransform = zoomIdentity


\* The scale of a frame at blend factor alpha with zoom multiplier 1, between
\* the globe scale globe and the flat scale of circumference c.
BaseScale(globe, c, alpha) == Interpolate(globe, MercatorScaleLength(c), alpha)

\* C11: a frame drawn by a handler that ends in a transition or in flat mode
\* leaves the projection with the interpolated base scale (zoom multiplier
\* 1), and a wheel event received during a transition or in flat mode
\* changes neither the zoom factor nor the projection.
C11_ZoomOnlyOnIdleGlobe ==
    [][/\ (/\ isProjectionTransitioning' \/ currentProjectionState' = MERCATOR
           /\ globeProjection' # globeProjection)
          => globeProjection'.scale =
                 BaseScale(orthographicScale', mercatorScale', globeProjection'.alpha)
       /\ (/\ isProjectionTransitioning \/ currentProjectionState = MERCATOR
           /\ Wheel)
          => UNCHANGED << currentZoomTransform, globeProjection, rendered >>]_vars

\* A frame has been drawn in a transition that started from a zoomed globe.
C11_Witness ==
    /\ isProjectionTransitioning
    /\ currentZoomTransform # zoomIdentity
    /\ \E c \in transitionCallbacks : c.drawn # NULL
    /\ globeProjection.scale =
           BaseScale(orthographicScale, mercatorScale, globeProjection.alpha)


\* C12: after any sequence of wheel, resize and transition events the zoom
\* factor lies in the closed range [0.8, 10].
C12_ZoomInExtent ==
    /\ SCALE_EXTENT_MIN <= currentZoomTransform
    /\ currentZoomTransform <= SCALE_EXTENT_MAX

\* The zoom factor sits at the upper end of the range after a wheel step
\* that would have taken it beyond.
C12_Witness ==
    /\ currentZoomTransform = SCALE_EXTENT_MAX
    /\ currentProjectionState = ORTHOGRAPHIC
    /\ projectionTransitionId # NULL


\* C13: a drag and an inertia loop are never active at the same time: while
\* a drag is in progress no inertia tick is scheduled.
C13_DragExcludesInertia ==
    isDragging => inertiaCallbacks = {} /\ inertiaAnimationId = NULL

\* A drag that pre-empted an inertia loop: the rotation is the one a sample
\* and the first inertia tick (0.25 degrees per pixel at the interpolated
\* scale, then the velocity 1 px / 750 ms * 16) left, the velocity is reset
\* and no inertia tick is scheduled.
C13_Witness ==
    /\ isDragging
    /\ nSamples > 0
    /\ currentRotation = << 130303, 0 - 192803, 0 >>
    /\ rotationVelocity = << 0, 0 >>
    /\ inertiaCallbacks = {}

\* C14: at any time at most one transition tick and at most one inertia tick
\* are scheduled.
C14_OneTickPerDriver ==
    /\ Cardinality(transitionCallbacks) <= 1
    /\ Cardinality(inertiaCallbacks) <= 1

\* A transition tick and an inertia tick are scheduled side by side.
C14_Witness ==
    /\ Cardinality(transitionCallbacks) = 1
    /\ Cardinality(inertiaCallbacks) = 1
    /\ \E c \in transitionCallbacks : inertiaAnimationId # c.id


\* The velocity rv exceeds the floor in magnitude on at least one axis.
AboveFloor(rv) ==
    \E i \in 1..2 : ~IsNaN(rv[i]) /\ (~IsFinite(rv[i]) \/ Abs(rv[i]) > MIN_VELOCITY)

\* C15: in globe mode a drag ends on pointer-up, on the pointer leaving the
\* canvas and on a pointer-move to a point outside the visible area, and on
\* nothing else; when it ends, an inertia loop is started if and only if the
\* rotation velocity exceeds the floor on at least one axis.
C15_DragEndStartsInertia ==
    [][isDragging /\ currentProjectionState = ORTHOGRAPHIC =>
          /\ handleMouseUp => ~isDragging'
          /\ \A p \in PointerPoints :
                (/\ ~isPointInVisibleArea(View, globeProjection, p)
                 /\ handleMouseMove(p, 0)) => ~isDragging'
          /\ ~isDragging' =>
                /\ handleMouseUp \/ MouseMove
                /\ inertiaCallbacks' # {} <=> AboveFloor(rotationVelocity)
                /\ inertiaAnimationId' # NULL <=> AboveFloor(rotationVelocity)]_vars

\* A drag has ended and has left an inertia tick scheduled.
C15_Witness ==
    /\ ~isDragging
    /\ currentProjectionState = ORTHOGRAPHIC
    /\ inertiaCallbacks # {}
    /\ AboveFloor(rotationVelocity)
    /\ sinceLastDragTime = NULL

\* C16: an inertia loop that has started stops: unless a new drag cancels
\* it first, a tick finds the velocity below the floor and leaves no tick
\* scheduled.
C16_InertiaStops == (inertiaCallbacks # {}) ~> (inertiaCallbacks = {})

\* v * f^k for the friction factor f, rounded as the velocity is.
RECURSIVE Decayed(_, _)
Decayed(v, k) ==
    IF k = 0 THEN v ELSE Decayed(SMulDiv(v, FRICTION_NUM, FRICTION_DEN), k - 1)

\* The least N from n on with |v0| * f^N below the floor on both axes.
RECURSIVE DecayTicksFrom(_, _)
DecayTicksFrom(v0, n) ==
    IF /\ Abs(Decayed(v0[1], n)) < MIN_VELOCITY
       /\ Abs(Decayed(v0[2], n)) < MIN_VELOCITY
    THEN n ELSE DecayTicksFrom(v0, n + 1)
DecayTicks(v0) == DecayTicksFrom(v0, 0)

\* The sum of v * f^k for k = 0 .. n - 1.
RECURSIVE DecaySum(_, _)
DecaySum(v, n) ==
    IF n = 0 THEN 0 ELSE DecaySum(v, n - 1) + Decayed(v, n - 1)

\* An inertia loop followed from its start stops at this step, in globe mode.
RunStops ==
    /\ inertiaRun.counted
    /\ currentProjectionState = ORTHOGRAPHIC
    /\ inertiaCallbacks # {}
    /\ inertiaCallbacks' = {}
    /\ ~isDragging'

\* C17 (as the code has it): an inertia run started with the rotation
\* velocity v0 moves the rotation on N ticks, N the least number with
\* |v0| * f^N below the floor on both axes, and stops on the next one; the
\* rotation has then been moved by the sum of v0 * f^k for k = 0 .. N - 1.
C17_DecaySumBelowN ==
    [][RunStops =>
          \E n \in { DecayTicks(inertiaRun.v0) } :
              /\ inertiaRun.ticks = n
              /\ inertiaRun.applied = << DecaySum(inertiaRun.v0[1], n),
                                         DecaySum(inertiaRun.v0[2], n) >>]_vars

\* C17 (as stated): the velocity is below the floor after N ticks and the
\* rotation has been moved by the sum of v0 * f^k for k = 0 .. N.
C17_DecaySumThroughN ==
    [][RunStops =>
          \E n \in { DecayTicks(inertiaRun.v0) } :
              /\ inertiaRun.ticks = n
              /\ inertiaRun.applied = << DecaySum(inertiaRun.v0[1], n + 1),
                                         DecaySum(inertiaRun.v0[2], n + 1) >>]_vars

\* An inertia run is about to stop: it has moved the rotation N times and
\* its tick is still scheduled.
C17_Witness ==
    /\ inertiaRun.counted
    /\ currentProjectionState = ORTHOGRAPHIC
    /\ inertiaCallbacks # {}
    /\ inertiaRun.ticks > 1
    /\ inertiaRun.ticks = DecayTicks(inertiaRun.v0)
    /\ inertiaRun.applied[1] # 0

\* C18: a pointer-down at a point outside the visible area starts no drag:
\* in no state can it change the drag state, a velocity or the inertia loop.
C18_OutsideDownIgnored ==
    \A p \in PointerPoints :
        ~isPointInVisibleArea(View, globeProjection, p) =>
            ~ENABLED (/\ handleMouseDown(p)
                      /\ << isDragging, dragStart, sinceLastDragTime,
                            rotationVelocity, mercatorVelocity,
                            inertiaAnimationId, inertiaCallbacks >>' #
                         << isDragging, dragStart, sinceLastDragTime,
                            rotationVelocity, mercatorVelocity,
                            inertiaAnimationId, inertiaCallbacks >>)

\* The pointer can go down outside the globe while an inertia loop runs.
C18_Witness ==
    /\ ENABLED handleMouseDown(<< 0, 0 >>)
    /\ ~isPointInVisibleArea(View, globeProjection, << 0, 0 >>)
    /\ currentProjectionState = ORTHOGRAPHIC
    /\ ~isDragging
    /\ inertiaCallbacks # {}
    /\ AboveFloor(rotationVelocity)

\* C19: in flat mode with no transition running, a pointer-down inside the
\* visible area starts a drag.
C19_FlatDownStartsDrag ==
    \A p \in PointerPoints :
        (/\ listenersInstalled
         /\ currentProjectionState = MERCATOR
         /\ ~isProjectionTransitioning
         /\ ~isDragging
         /\ isPointInVisibleArea(View, globeProjection, p))
            => ENABLED (handleMouseDown(p) /\ isDragging')

\* C20: when a drag ends in flat mode with a (finite) pan velocity above the
\* floor, an inertia tick is scheduled.
C20_PanDragEndStartsInertia ==
    [][(/\ isDragging
        /\ currentProjectionState = MERCATOR
        /\ IsFinite(mercatorVelocity)
        /\ Abs(mercatorVelocity) > MIN_VELOCITY
        /\ ~isDragging')
          => inertiaCallbacks' # {} /\ inertiaAnimationId' # NULL]_vars

\* C21: once the flat-map width W is known, the pan offset (where it is a
\* number at all) satisfies 0 <= offset < W in every state.
C21_OffsetWrapped ==
    (mercatorScale # NULL /\ mercatorScale > 0 /\ IsFinite(mercatorOffset)) =>
        (0 <= mercatorOffset /\ mercatorOffset < mercatorScale * AngleDen)

\* C22: the latitude component of the view rotation stays within
\* [-90, 90] degrees, in the program and in the projection.
C22_LatitudeClamped ==
    /\ Abs(currentRotation[2]) <= 90 * AngleDen
    /\ globeProjection.created => Abs(globeProjection.rotate[2]) <= 90 * AngleDen

\* 0.25 / zoomFactor degrees per pixel, in angle units.
DegreesPerPixel ==
    (SENSITIVITY_NUM * AngleDen * ZoomDen) \div (SENSITIVITY_DEN * currentZoomTransform)

\* C23: on the idle globe a pointer sample during a drag, (dx, dy) pixels from
\* the previous one, changes the rotation by (+dx k, -dy k, 0) for
\* k = 0.25 / zoomFactor; at zoom 1 a move of 50 px is 12.5 degrees.
C23_DragRotatesByPixels ==
    [][(/\ isDragging
        /\ nSamples' = nSamples + 1
        /\ currentProjectionState = ORTHOGRAPHIC
        /\ ~isProjectionTransitioning)
          => /\ currentRotation' =
                  << currentRotation[1] + (dragStart'[1] - dragStart[1]) * DegreesPerPixel,
                     currentRotation[2] - (dragStart'[2] - dragStart[2]) * DegreesPerPixel,
                     currentRotation[3] >>
             /\ globeProjection'.rotate = currentRotation'
             /\ currentZoomTransform = zoomIdentity =>
                   2 * DragAngle(50, globeProjection.scale) = 25 * AngleDen]_vars

\* A drag on the idle globe, zoomed out, has moved the rotation by one pixel
\* on each axis.
C23_Witness ==
    /\ isDragging
    /\ nSamples > 0
    /\ currentProjectionState = ORTHOGRAPHIC
    /\ ~isProjectionTransitioning
    /\ currentZoomTransform = SCALE_EXTENT_MIN
    /\ currentRotation = << ORTHOGRAPHIC_ROTATION[1] + DegreesPerPixel,
                            ORTHOGRAPHIC_ROTATION[2] - DegreesPerPixel, 0 >>

\* Points to test: the centre, points on and just outside the globe's
\* circle at zoom 1 and at zoom 0.8, points on and just outside the top and
\* right edges of the flat map, and the canvas corner.
HitProbes ==
    { << 400, 200 >>, << 590, 200 >>, << 591, 200 >>, << 552, 200 >>,
      << 553, 200 >>, << 400, 5 >>, << 400, 4 >>, << 600, 200 >>,
      << 601, 200 >>, << 0, 0 >> }

\* The distance of p from the canvas centre is at most globeScale * zoomFactor
\* (a whole number of pixels in the states reached).
InDisc(p) ==
    LET radius2 == (2 * orthographicScale * currentZoomTransform) \div (PixDen * ZoomDen)
        dx2 == 2 * p[1] - canvasSize[1]
        dy2 == 2 * p[2] - canvasSize[2]
    IN  dx2 * dx2 + dy2 * dy2 <= radius2 * radius2

\* p is within the clip bounds vertically and within the centred band of
\* the flat map's width horizontally.
InBand(p) ==
    /\ mercatorViewportClipping.set
    /\ mercatorViewportClipping.y <= p[2] * PixDen
    /\ p[2] * PixDen <= mercatorViewportClipping.y + mercatorViewportClipping.height
    /\ Abs(2 * p[1] - canvasSize[1]) <= mercatorScale

\* C24 (as the code has it): the flat test applies in flat mode and, during a
\* transition, once the projection's blend factor is above 1/2; the globe
\* test applies otherwise.  Without clip bounds the flat test fails.
C24_HitTestByBlend ==
    listenersInstalled =>
        /\ \A p \in HitProbes :
              isPointInVisibleArea(View, globeProjection, p) <=>
                  IF \/ currentProjectionState = MERCATOR
                     \/ isProjectionTransitioning /\ 2 * globeProjection.alpha > BlendDen
                  THEN InBand(p) ELSE InDisc(p)
        /\ \A p \in HitProbes :
              ~isPointInVisibleArea(
                   [ View EXCEPT !.currentProjectionState = MERCATOR,
                                 !.mercatorViewportClipping = NoClipping ],
                   globeProjection, p)

\* C24 (as stated): the globe test applies in globe mode, the flat test in
\* flat mode.
C24_HitTestByMode ==
    listenersInstalled =>
        \A p \in HitProbes :
            isPointInVisibleArea(View, globeProjection, p) <=>
                IF currentProjectionState = MERCATOR THEN InBand(p) ELSE InDisc(p)

\* Late in a globe-to-flat transition a point outside the globe's circle is
\* in the visible area, and a point on the circle was inside it before.
C24_Witness ==
    /\ listenersInstalled
    /\ currentProjectionState = ORTHOGRAPHIC
    /\ isProjectionTransitioning
    /\ 2 * globeProjection.alpha > BlendDen
    /\ ~InDisc(<< 600, 200 >>)
    /\ InDisc(<< 590, 200 >>)
    /\ isPointInVisibleArea(View, globeProjection, << 600, 200 >>)

\* C25: whenever a frame has been or can be drawn, the flat-mode scale,
\* translation and clip bounds are those computed from the canvas size the
\* render reads; the flat scale is min(width, height) / 2 pi (kept as the
\* circumference, min(width, height)).
C25_FlatParametersFresh ==
    /\ rendered => mercatorViewportClipping.set
    /\ mercatorViewportClipping.set =>
          /\ mercatorScale = Min(canvasSize[1], canvasSize[2])
          /\ mercatorTranslation[1] * 2 = canvasSize[1] * PixDen
          /\ mercatorViewportClipping.width = canvasSize[1] * PixDen
          /\ [ mercatorScale |-> mercatorScale,
               mercatorTranslation |-> mercatorTranslation,
               mercatorViewportClipping |-> mercatorViewportClipping ]
                 = MercatorViewport(canvasSize)

\* Frames have been drawn and the canvas has a size other than its first.
C25_Witness ==
    /\ rendered
    /\ listenersInstalled
    /\ canvasSize # initialCanvasSize
    /\ canvasSize = << 600, 500 >>
    /\ mercatorScale = 500
    /\ currentProjectionState = MERCATOR

\* C26: the globe-mode base scale is min(width, height) / 2 - 10 for the
\* current canvas width and height.
C26_GlobeScaleFresh ==
    orthographicScale # NULL =>
        orthographicScale =
            (Min(canvasSize[1], canvasSize[2]) * PixDen) \div 2 - 10 * PixDen

\* C27: until the fetch has resolved no frame is drawn and no toggle, pointer
\* or wheel listener is installed; a resize before that updates the
\* size-dependent parameters and draws nothing; a failed fetch stays failed.
C27_NothingDrawnWithoutData ==
    /\ [](fetchState # "resolved" => ~rendered /\ ~listenersInstalled /\ ~zoom)
    /\ [][/\ fetchState = "failed" => fetchState' = "failed"
          /\ (fetchState' # "resolved" /\ canvasSize' # canvasSize) =>
                /\ mercatorViewportClipping'.set
                /\ mercatorScale' = Min(canvasSize'[1], canvasSize'[2])
                /\ ~rendered']_vars

\* The fetch has failed and a resize has set the size-dependent parameters.
C27_Witness ==
    /\ fetchState = "failed"
    /\ mercatorViewportClipping.set
    /\ canvasSize = wrapperSize
    /\ ~rendered

\* C28: if the canvas, the wrapper or the toggle control is absent, the
\* error is reported, and no fetch is started and no listener installed.
C28_MissingElementReported ==
    domElements # Elements =>
        /\ startup = "reported"
        /\ fetchState = "none"
        /\ ~listenersInstalled
        /\ ~zoom
        /\ ~ENABLED Resize

(* ------------------------------------------------------------------ *)
(* C29: the blend factor drawn on a transition tick                    *)
(* ------------------------------------------------------------------ *)

\* The symmetric cubic ease-in-out at the quarters of the unit interval, in
\* 128ths: 4x^3 up to one half, 1 - 4(1-x)^3 beyond.
EaseAtQuarter(q) ==
    CASE q = 0 -> 0
      [] q = 1 -> 8
      [] q = 2 -> 64
      [] q = 3 -> 120
      [] OTHER -> 128

\* The time between the first tick of the transition of closure c and the
\* tick that runs d TimeSteps after the last clock reading.
TickElapsed(c, d) ==
    IF c.sinceTransitionStart = NULL THEN 0
    ELSE c.sinceTransitionStart + d * TimeStep

\* from + (to - from) * ease(min(1, elapsed / 1500)), in 128ths.
EasedBlend(from, to, elapsed) ==
    128 * from
        + (to - from) * EaseAtQuarter(Min(4, (4 * elapsed) \div TRANSITION_DURATION))

\* C29: every tick of a transition draws the blend factor
\* from + (to - from) * ease(min(1, elapsed / 1500)), elapsed being the time
\* since the transition's first tick and ease the symmetric cubic
\* ease-in-out; a globe-to-flat transition draws one half at 750 ms.
C29_TickDrawsEasedBlend ==
    [][ \A c \in transitionCallbacks, d \in TickDelays :
            transitionFrame(c, d) =>
                /\ globeProjection'.created
                /\ globeProjection'.alpha =
                       EasedBlend(c.initialState, c.finalState, TickElapsed(c, d))
                /\ (/\ c.initialState = ORTHOGRAPHIC
                    /\ c.finalState = MERCATOR
                    /\ TickElapsed(c, d) = 750)
                       => 2 * globeProjection'.alpha = BlendDen ]_vars

\* A globe-to-flat transition whose tick at 750 ms has drawn one half.
C29_Witness ==
    /\ isProjectionTransitioning
    /\ globeProjection.created
    /\ 2 * globeProjection.alpha = BlendDen
    /\ \E c \in transitionCallbacks :
           /\ c.initialState = ORTHOGRAPHIC
           /\ c.finalState = MERCATOR
           /\ c.sinceTransitionStart = 750
           /\ c.drawn = globeProjection.alpha

(* ------------------------------------------------------------------ *)
(* C30: the blended projection object                                  *)
(* ------------------------------------------------------------------ *)

\* Calls logged in a behaviour.
MaxCalls == 3

\* The points projected, (longitude, latitude) in degrees, and the blend
\* factors set, as numerators over BlendDen.
BlendPoints ==
    { << 0, 0 >>, << 30, 30 >>, << 90, 0 >>, << 0 - 90, 0 - 30 >>,
      << 0, 90 >>, << 30, 0 - 90 >> }
BlendFactors == { 0, BlendDen \div 4, BlendDen \div 2, BlendDen }

\* The variables no call on the projection object touches.
programState ==
    << fetchState, listenersInstalled, wrapperSize, canvasSize,
       worldCountries, orthographicScale, mercatorScale,
       mercatorTranslation, mercatorViewportClipping, zoom, zoomState,
       currentZoomTransform, initialCanvasSize, projectionTransitionId,
       isProjectionTransitioning, toggleDisabled, currentProjectionState,
       isDragging, dragStart, currentRotation, mercatorOffset,
       rotationVelocity, mercatorVelocity, sinceLastDragTime,
       inertiaAnimationId, transitionCallbacks, inertiaCallbacks,
       rendered, nSamples, inertiaRun, domElements, startup >>

\* globeProjection.alpha(progress):
\*   projectionMutator(transitionProgress = +progress)
alphaSet(progress) ==
    /\ globeProjection.created
    /\ Len(callLog) < MaxCalls
    /\ globeProjection' = [ globeProjection EXCEPT !.alpha = progress ]
    /\ callLog' = Append(callLog, [ op |-> "alpha(t)", arg |-> progress ])
    /\ UNCHANGED programState

BlendSetAlpha == \E t \in BlendFactors : alphaSet(t)

\* globeProjection.alpha(): return transitionProgress
BlendGetAlpha ==
    /\ globeProjection.created
    /\ Len(callLog) < MaxCalls
    /\ callLog' = Append(callLog, [ op |-> "alpha()",
                                    result |-> globeProjection.alpha ])
    /\ UNCHANGED << globeProjection, programState >>

\* The object's raw projection evaluated at a point.
BlendProject ==
    \E p \in BlendPoints :
        /\ globeProjection.created
        /\ Len(callLog) < MaxCalls
        /\ callLog' = Append(callLog,
                             [ op |-> "project", arg |-> p,
                               result |-> projectionMutator(globeProjection.alpha, p) ])
        /\ UNCHANGED << globeProjection, programState >>

BlendNext ==
    \/ DataLoaded
    \/ BlendSetAlpha
    \/ BlendGetAlpha
    \/ BlendProject

BlendSpec == Init /\ [][BlendNext]_vars

\* The factor last set through alpha(t) before call i of the log; the
\* object is created, and first drawn, with the factor 0.
LastSet(i) ==
    LET sets == { j \in 1..(i - 1) : callLog[j].op = "alpha(t)" }
    IN  IF sets = {} THEN 0
        ELSE callLog[CHOOSE j \in sets : \A k \in sets : k <= j].arg

\* P0 + t (P1 - P0) on one coordinate, where both ends are finite.
LinearBetween(a, b, t) == a + SDiv((b - a) * t, BlendDen)

\* C30: every evaluation returns P0 + t (P1 - P0) componentwise, P0's output
\* at t = 0 and P1's at t = 1, t being the factor last set through alpha(t);
\* alpha() returns the factor last set.
C30_BlendIsLinear ==
    \A i \in 1..Len(callLog) :
        /\ callLog[i].op = "alpha()" => callLog[i].result = LastSet(i)
        /\ callLog[i].op = "project" =>
               LET t == LastSet(i)
                   P0 == geoOrthographicRaw(callLog[i].arg)
                   P1 == geoMercatorRaw(callLog[i].arg)
                   out == callLog[i].result
               IN  /\ t = 0 => out = P0
                   /\ t = BlendDen => out = P1
                   /\ \A n \in 1..2 :
                          (IsFinite(P0[n]) /\ IsFinite(P1[n])) =>
                              out[n] = LinearBetween(P0[n], P1[n], t)

(* ------------------------------------------------------------------ *)
(* C31: the clip regime of a frame                                     *)
(* ------------------------------------------------------------------ *)

\* C31: a frame of blend factor t <= 1/2 has no rectangular clip and draws
\* every layer under an angular clip of at least 90 degrees; a frame of
\* t > 1/2 has the rectangular clip and angular clipping disabled for every
\* layer, the countries and the grid, outline, equator and sample line.
C31_OneClipRegime ==
    (rendered /\ globeProjection.created) =>
        LET frame == renderProjectionFrame(View, globeProjection.alpha)
        IN  IF 2 * globeProjection.alpha <= BlendDen
            THEN /\ ~frame.rectClip
                 /\ frame.countriesClipAngle # NULL
                 /\ frame.countriesClipAngle >= 90 * AngleDen
                 /\ globeProjection.clipAngle # NULL
                 /\ globeProjection.clipAngle >= 90 * AngleDen
            ELSE /\ frame.rectClip
                 /\ frame.countriesClipAngle = NULL
                 /\ globeProjection.clipAngle = NULL

(* ------------------------------------------------------------------ *)
(* C32: the viewport solver over canvas shapes                         *)
(* ------------------------------------------------------------------ *)

\* Wrapper sizes of three shapes: wide, tall, and tall and narrow.
ViewportWrapperSizes == { << 800, 400 >>, << 400, 800 >>, << 100, 500 >> }

ViewportResize == \E s \in ViewportWrapperSizes : ResizeTo(s)

\* Resizes between the three shapes, with the events that render.
ViewportNext ==
    \/ DataLoaded
    \/ DataFailed
    \/ ViewportResize
    \/ Toggle
    \/ TransitionFrame

ViewportSpec == Init /\ [][ViewportNext]_vars

\* C32: the solved translation is horizontally width/2; the clip rectangle's
\* top edge is the projected y of latitude +86, its bottom edge that of
\* latitude -83, under the solved scale and translation; the band is
\* vertically centred in the canvas and spans its width.
C32_ClipBandCentred ==
    mercatorViewportClipping.set =>
        LET clip == mercatorViewportClipping
            north == MercatorProjectY(mercatorScale, mercatorTranslation[2],
                                      MERCATOR_Y_MAX)
            south == MercatorProjectY(mercatorScale, mercatorTranslation[2],
                                      MERCATOR_Y_MIN)
        IN  /\ 2 * mercatorTranslation[1] = canvasSize[1] * PixDen
            /\ clip.y = north
            /\ clip.y + clip.height = south
            /\ Abs(2 * clip.y + clip.height - canvasSize[2] * PixDen) <= 2
            /\ clip.x = 0
            /\ clip.width = canvasSize[1] * PixDen

(* ------------------------------------------------------------------ *)
(* C33: the first render                                               *)
(* ------------------------------------------------------------------ *)

\* C33: a frame is only rendered through a created projection object, and
\* once the dataset has resolved the first frame has been drawn and the
\* toggle, pointer and wheel listeners are installed, whatever the canvas
\* attributes and the wrapper size were.
C33_FirstRenderSucceeds ==
    /\ rendered => globeProjection.created
    /\ fetchState = "resolved" =>
           /\ globeProjection.created
           /\ rendered
           /\ listenersInstalled
           /\ zoom

(* ------------------------------------------------------------------ *)
(* C34: drags and the committed mode                                   *)
(* ------------------------------------------------------------------ *)

\* C34: while a drag is in progress the committed mode is globe.
C34_DragOnlyOnGlobe == isDragging => currentProjectionState = ORTHOGRAPHIC

(* ------------------------------------------------------------------ *)
(* C35: velocity samples                                               *)
(* ------------------------------------------------------------------ *)

\* C35: no rotation velocity and no pan velocity is ever infinite or
\* undefined: a sample taken at the timestamp of the previous one leaves
\* the velocity unchanged.
C35_VelocitiesFinite ==
    /\ IsFinite(rotationVelocity[1])
    /\ IsFinite(rotationVelocity[2])
    /\ IsFinite(mercatorVelocity)

(* ------------------------------------------------------------------ *)
(* C36: wheel events that were ignored                                 *)
(* ------------------------------------------------------------------ *)

\* C36: a wheel event accepted on the idle globe sets the zoom factor to the
\* factor in force before the event scaled by that event's step alone,
\* however many wheel events were ignored before it.
C36_NoHiddenZoom ==
    [][ (/\ ZoomAccepted
         /\ canvasSize' = canvasSize
         /\ currentZoomTransform' # currentZoomTransform)
            => \E step \in WheelSteps \cup ZoomWheelSteps :
                   currentZoomTransform' = WheelScale(currentZoomTransform, step) ]_vars

(* ------------------------------------------------------------------ *)
(* C37: what a resize leaves alone                                     *)
(* ------------------------------------------------------------------ *)

\* The mode, the transition, the rotation, the pan offset, the drag and the
\* inertia loop.
interactionState ==
    << currentProjectionState, isProjectionTransitioning, toggleDisabled,
       projectionTransitionId, transitionCallbacks, currentRotation,
       mercatorOffset, isDragging, dragStart, sinceLastDragTime, nSamples,
       rotationVelocity, mercatorVelocity, inertiaAnimationId,
       inertiaCallbacks, inertiaRun >>

\* What the program holds besides: the canvas, the projection and its
\* parameters, the zoom, the dataset and the listeners.
displayState ==
    << canvasSize, globeProjection, orthographicScale, mercatorScale,
       mercatorTranslation, mercatorViewportClipping, currentZoomTransform,
       zoomState, zoom, worldCountries, fetchState, listenersInstalled >>

\* A resize event with the wrapper at the size s that does not change the
\* canvas size draws nothing and changes nothing, initialCanvasSize set
\* aside.
IdleResizeKeepsState(s) ==
    (ResizeTo(s) /\ canvasSize' = canvasSize) =>
        /\ handleCanvasResize(s, worldCountries).frames = << >>
        /\ UNCHANGED << interactionState, displayState >>

\* A resize event with the wrapper at the size s that changes the canvas
\* size resets the zoom factor and leaves the interaction alone.
SizeChangeResetsZoom(s) ==
    (ResizeTo(s) /\ canvasSize' # canvasSize) =>
        /\ currentZoomTransform' = zoomIdentity
        /\ UNCHANGED interactionState

\* C37 as amended: a resize that changes the canvas size resets the zoom
\* factor to the identity and leaves the mode, the transition, the rotation,
\* the pan offset, the drag and the inertia unchanged; one that does not
\* change the canvas size renders nothing and changes no state other than
\* initialCanvasSize, which the first resize event records even then.
C37_ResizeKeepsInteraction ==
    [][ \A s \in SizeWrapperSizes :
            /\ SizeChangeResetsZoom(s)
            /\ IdleResizeKeepsState(s)
            /\ (ResizeTo(s) /\ canvasSize' = canvasSize) =>
                   initialCanvasSize' =
                       IF initialCanvasSize[1] = 0 THEN s ELSE initialCanvasSize ]_vars

\* C37 as stated: a resize that does not change the canvas size changes no
\* state at all.
C37_IdleResizeChangesNothing ==
    [][ \A s \in SizeWrapperSizes :
            /\ SizeChangeResetsZoom(s)
            /\ IdleResizeKeepsState(s)
            /\ (ResizeTo(s) /\ canvasSize' = canvasSize) =>
                   initialCanvasSize' = initialCanvasSize ]_vars

\* The canvas has been resized while zoomed in and is back at the identity,
\* with a transition under way that the resize left alone.
C37_Witness ==
    /\ zoom
    /\ canvasSize # initialCanvasSize
    /\ currentZoomTransform = zoomIdentity
    /\ isProjectionTransitioning
    /\ transitionCallbacks # {}

=============================================================================
